---- MODULE Spec2Model ----
(***************************************************************************)
(* A model of free-style (src/src/index.ts): the recursive flattening of   *)
(* nested style descriptions (parseStyles, stylize, composeStylize) and    *)
(* the reference-counted hierarchical cache (Cache, Selector, Style, Rule, *)
(* FreeStyle) with its change notifications.                               *)
(*                                                                         *)
(* A JavaScript string is a string here; an array is a sequence.           *)
(***************************************************************************)
EXTENDS Integers, Sequences, FiniteSets, TLC

(***************************************************************************)
(* The environment and the program's state                                 *)
(***************************************************************************)

VARIABLES
    production,  \* process.env.NODE_ENV === "production"
    sortTies,    \* how the engine's Array.prototype.sort places keys that compare equal
    uniqueId,    \* the module-level counter behind unique hashes and create()
    roots,       \* the FreeStyle instances, in order of creation
    mirror,      \* the list a consumer keeps from the notifications of the listener
    notes,       \* the notifications the listener received during the last operation
    regs,        \* the outstanding registrations and merges, each with the nodes it added
    last,        \* the last operation: its name and the registration it made or revoked
    ops,         \* the number of operations performed
    limit,       \* the number of operations of the behaviour
    heap,        \* the objects, each at its address, where object identity is followed
    held         \* the addresses of the objects the program holds

vars == <<production, sortTies, uniqueId, roots, mirror, notes, regs, last, ops, limit,
          heap, held>>

(***************************************************************************)
(* Characters and strings                                                  *)
(***************************************************************************)

\* The separator "\0" of the node ids: a character no input holds.
NUL == "\t"

\* The printable ASCII characters from code 32 to code 95, in code order.
CharsFrom32 == " !\"#$%&'()*+,-./0123456789:;<=>?@ABCDEFGHIJKLMNOPQRSTUVWXYZ[\\]^_"

\* The printable ASCII characters from code 97 to code 126, in code order.  (The
\* grave accent, code 96, is outside the alphabet of the model.)
CharsFrom97 == "abcdefghijklmnopqrstuvwxyz{|}~"

\* The i-th character of a string, from 1.
charAt(s, i) == SubSeq(s, i, i)

\* Whether character c occurs in string s.
occurs(c, s) == \E i \in 1..Len(s) : charAt(s, i) = c

CharSet == {charAt(CharsFrom32, i) : i \in 1..Len(CharsFrom32)}
           \cup {charAt(CharsFrom97, i) : i \in 1..Len(CharsFrom97)}

\* String.prototype.charCodeAt, for one character.
charCode == [c \in CharSet |->
               IF occurs(c, CharsFrom32)
               THEN 31 + (CHOOSE i \in 1..Len(CharsFrom32) : charAt(CharsFrom32, i) = c)
               ELSE 96 + (CHOOSE i \in 1..Len(CharsFrom97) : charAt(CharsFrom97, i) = c)]

\* String.fromCharCode for a lower-case letter.
fromCharCode(n) == charAt(CharsFrom97, n - 96)

RECURSIVE join(_)
\* Cache to list to styles: the concatenation of an array of strings.
join(arr) == IF arr = <<>> THEN "" ELSE Head(arr) \o join(Tail(arr))

RECURSIVE joinWith(_, _)
\* Array.prototype.join(sep).
joinWith(arr, sep) ==
    IF arr = <<>> THEN ""
    ELSE IF Len(arr) = 1 THEN arr[1]
    ELSE arr[1] \o sep \o joinWith(Tail(arr), sep)

RECURSIVE StrGt(_, _)
\* a > b on JavaScript strings: lexicographic by code unit.
StrGt(a, b) ==
    IF a = "" THEN FALSE
    ELSE IF b = "" THEN TRUE
    ELSE IF charCode[Head(a)] # charCode[Head(b)] THEN charCode[Head(a)] > charCode[Head(b)]
    ELSE StrGt(Tail(a), Tail(b))

RECURSIVE trimLeft(_)
trimLeft(s) == IF s # "" /\ Head(s) = " " THEN trimLeft(Tail(s)) ELSE s

RECURSIVE trimRight(_)
trimRight(s) ==
    IF s # "" /\ charAt(s, Len(s)) = " " THEN trimRight(SubSeq(s, 1, Len(s) - 1)) ELSE s

\* String.prototype.trim (the space is the only white space of the alphabet).
trim(s) == trimRight(trimLeft(s))

Digits36 == "0123456789abcdefghijklmnopqrstuvwxyz"

RECURSIVE natToString(_, _)
\* Number.prototype.toString(radix) of a natural number.
natToString(n, radix) ==
    IF n < radix THEN charAt(Digits36, n + 1)
    ELSE natToString(n \div radix, radix) \o charAt(Digits36, (n % radix) + 1)

\* `${value}` of an integer.
numToString(n) == IF n < 0 THEN "-" \o natToString(-n, 10) ELSE natToString(n, 10)

(***************************************************************************)
(* Style values: number | boolean | string | array of those | nested       *)
(* Styles | null.  A Styles object is its own keys in insertion order      *)
(* (entries, each <<key, value>>), plus the two control keys $unique and   *)
(* $displayName.                                                           *)
(***************************************************************************)

Num(n)  == [t |-> "number", v |-> n]
Str(s)  == [t |-> "string", v |-> s]
Bool(b) == [t |-> "boolean", v |-> b]
Arr(xs) == [t |-> "array", v |-> xs]
Obj(st) == [t |-> "object", v |-> st]
Null    == [t |-> "null"]

\* $displayName absent.
NoName == ""

Styles(unique, displayName, entries) ==
    [unique |-> unique, displayName |-> displayName, entries |-> entries]

\* A Styles object with no control key.
Plain(entries) == Styles(FALSE, NoName, entries)

(***************************************************************************)
(* Pure helpers                                                            *)
(***************************************************************************)

\* CSS properties that are valid unit-less numbers.
CSS_NUMBER_KEYS ==
    <<
       "animation-iteration-count", "border-image-outset", "border-image-slice",
       "border-image-width", "box-flex", "box-flex-group", "box-ordinal-group",
       "column-count", "columns", "counter-increment", "counter-reset", "flex",
       "flex-grow", "flex-positive", "flex-shrink", "flex-negative", "flex-order",
       "font-weight", "grid-area", "grid-column", "grid-column-end", "grid-column-span",
       "grid-column-start", "grid-row", "grid-row-end", "grid-row-span", "grid-row-start",
       "line-clamp", "line-height", "opacity", "order", "orphans", "tab-size", "widows",
       "z-index", "zoom", "fill-opacity", "flood-opacity", "stop-opacity",
       "stroke-dasharray", "stroke-dashoffset", "stroke-miterlimit", "stroke-opacity",
       "stroke-width"
    >>

VendorPrefixes == <<"-webkit-", "-ms-", "-moz-", "-o-", "">>

\* The dictionary built by the loop that adds the vendor prefixes.
CSS_NUMBER ==
    {VendorPrefixes[p] \o CSS_NUMBER_KEYS[k] :
        p \in 1..Len(VendorPrefixes), k \in 1..Len(CSS_NUMBER_KEYS)}

\* The characters escape() puts a backslash before (all but the grave accent).
EscapeChars == " !#$%&()*+,./;<=>?@[]^{|}~\"'\\"

RECURSIVE escape(_)
\* Escape a CSS class name.
escape(str) ==
    IF str = "" THEN ""
    ELSE (IF occurs(Head(str), EscapeChars) THEN "\\" \o Head(str) ELSE Head(str))
         \o escape(Tail(str))

isUpper(c) == charCode[c] >= 65 /\ charCode[c] <= 90

toLowerCase(c) == fromCharCode(charCode[c] + 32)

RECURSIVE hyphenateUpper(_)
\* .replace(/[A-Z]/g, m => `-${m.toLowerCase()}`)
hyphenateUpper(s) ==
    IF s = "" THEN ""
    ELSE (IF isUpper(Head(s)) THEN "-" \o toLowerCase(Head(s)) ELSE Head(s))
         \o hyphenateUpper(Tail(s))

\* Transform a JavaScript property into a CSS property.
hyphenate(propertyName) ==
    LET h == hyphenateUpper(propertyName)
    IN  IF Len(h) >= 3 /\ SubSeq(h, 1, 3) = "ms-" THEN "-" \o h ELSE h

(***************************************************************************)
(* stringHash: 32-bit arithmetic kept as two 16-bit halves                 *)
(***************************************************************************)

HashSeed == 5381

HashMultiplier == 33

HalfWord == 65536

RECURSIVE xorBits(_, _, _)
\* a ^ b on the low n bits.
xorBits(a, b, n) ==
    IF n = 0 THEN 0
    ELSE (((a % 2) + (b % 2)) % 2) + 2 * xorBits(a \div 2, b \div 2, n - 1)

\* value = (value * 33) ^ code, the result taken modulo 2^32.
hashStep(value, code) ==
    LET lo == value.lo * HashMultiplier
        hi == value.hi * HashMultiplier + (lo \div HalfWord)
    IN  [hi |-> hi % HalfWord, lo |-> xorBits(lo % HalfWord, code, 16)]

RECURSIVE hashLoop(_, _, _, _)
\* while (len--) value = (value * 33) ^ str.charCodeAt(len), for the rounds of
\* the characters from len down to first.  The rounds are taken as two halves,
\* the half of the later characters first and the other half on its result,
\* which keeps the evaluation shallow (the test on upper has the evaluator
\* compute it before the second half).
hashLoop(str, first, len, value) ==
    IF len < first THEN value
    ELSE IF len = first THEN hashStep(value, charCode[charAt(str, len)])
    ELSE LET upper == hashLoop(str, ((first + len) \div 2) + 1, len, value)
         IN  IF upper.lo >= 0 THEN hashLoop(str, first, (first + len) \div 2, upper)
             ELSE upper

RECURSIVE wordToString(_, _)
\* (value >>> 0).toString(radix), by long division on the halves.
wordToString(value, radix) ==
    LET t == (value.hi % radix) * HalfWord + value.lo
    IN  IF value.hi = 0 /\ value.lo < radix THEN charAt(Digits36, value.lo + 1)
        ELSE wordToString([hi |-> value.hi \div radix, lo |-> t \div radix], radix)
             \o charAt(Digits36, (t % radix) + 1)

\* Generate a hash value from a string.
stringHash(str) ==
    wordToString(hashLoop(str, 1, Len(str),
                          [hi |-> HashSeed \div HalfWord, lo |-> HashSeed % HalfWord]), 36)

(***************************************************************************)
(* StyleTreeParser                                                         *)
(***************************************************************************)

\* JavaScript truthiness of a property value.
truthy(value) ==
    CASE value.t = "number"  -> value.v # 0
      [] value.t = "string"  -> value.v # ""
      [] value.t = "boolean" -> value.v
      [] OTHER               -> value.t # "null"

\* `${value}` of a scalar.
valueToString(value) ==
    CASE value.t = "number"  -> numToString(value.v)
      [] value.t = "boolean" -> (IF value.v THEN "true" ELSE "false")
      [] OTHER               -> value.v

\* A rendering that gives every number but zero the unit, whatever the property.
styleToStringAlwaysUnit(k, value) ==
    IF truthy(value) /\ value.t = "number"
    THEN k \o ":" \o valueToString(value) \o "px"
    ELSE k \o ":" \o valueToString(value)

\* Transform a style string to a CSS string.
styleToString(k, value) ==
    IF truthy(value) /\ value.t = "number" /\ k \notin CSS_NUMBER
    THEN k \o ":" \o valueToString(value) \o "px"
    ELSE k \o ":" \o valueToString(value)

\* The comparator of sortTuples: a[0] > b[0] ? 1 : -1 (it never answers 0).
compareTuples(a, b) == IF StrGt(a[1], b[1]) THEN 1 ELSE -1

RECURSIVE insertTuple(_, _)
\* One insertion of Array.prototype.sort.  With keys that compare equal the
\* comparator is inconsistent and the order is the engine's: a linear insertion
\* moves x left past h while comparefn(h, x) > 0 and keeps equal keys in place,
\* a binary insertion goes left of h while comparefn(x, h) < 0 and reverses them.
insertTuple(sorted, x) ==
    IF sorted = <<>> THEN <<x>>
    ELSE LET h == sorted[Len(sorted)]
             left == IF sortTies = "linear" THEN compareTuples(h, x) > 0
                     ELSE compareTuples(x, h) < 0
         IN  IF left THEN insertTuple(SubSeq(sorted, 1, Len(sorted) - 1), x) \o <<h>>
             ELSE sorted \o <<x>>

\* A sort that leaves the array as it is.
sortTuplesAsGiven(value) == value

RECURSIVE sortTuples(_)
\* Sort an array of tuples by first value.
sortTuples(value) ==
    IF value = <<>> THEN <<>>
    ELSE insertTuple(sortTuples(SubSeq(value, 1, Len(value) - 1)), value[Len(value)])

\* One property tuple as text: an array gives one declaration per element.
propertyToString(property) ==
    IF property[2].t # "array" THEN styleToString(property[1], property[2])
    ELSE joinWith([i \in 1..Len(property[2].v) |-> styleToString(property[1], property[2].v[i])],
                  ";")

\* Stringify an array of property tuples.
stringifyProperties(properties) ==
    joinWith([i \in 1..Len(properties) |-> propertyToString(properties[i])], ";")

\* Whether parseStyles's loop keeps the entry: not a $ key, not null or undefined.
keptEntry(entry) ==
    LET name == trim(entry[1])
    IN  ~(name # "" /\ Head(name) = "$") /\ entry[2].t # "null"

RECURSIVE parseProperties(_)
\* The declaration tuples of parseStyles's loop, in key order.
parseProperties(entries) ==
    IF entries = <<>> THEN <<>>
    ELSE (IF keptEntry(Head(entries)) /\ Head(entries)[2].t # "object"
          THEN << <<hyphenate(trim(Head(entries)[1])), Head(entries)[2]>> >>
          ELSE <<>>)
         \o parseProperties(Tail(entries))

RECURSIVE parseNested(_)
\* The nested tuples of parseStyles's loop, in key order.
parseNested(entries) ==
    IF entries = <<>> THEN <<>>
    ELSE (IF keptEntry(Head(entries)) /\ Head(entries)[2].t = "object"
          THEN << <<trim(Head(entries)[1]), Head(entries)[2].v>> >>
          ELSE <<>>)
         \o parseNested(Tail(entries))

\* A parse that leaves the nested entries of every node in key order.
parseStylesInKeyOrder(styles, hasNestedStyles) ==
    [style    |-> stringifyProperties(sortTuples(parseProperties(styles.entries))),
     nested   |-> parseNested(styles.entries),
     isUnique |-> styles.unique]

\* Categorize user styles.
parseStyles(styles, hasNestedStyles) ==
    [style    |-> stringifyProperties(sortTuples(parseProperties(styles.entries))),
     nested   |-> IF hasNestedStyles THEN parseNested(styles.entries)
                  ELSE sortTuples(parseNested(styles.entries)),
     isUnique |-> styles.unique]

(***************************************************************************)
(* Stylizer                                                                *)
(***************************************************************************)

RECURSIVE getSubstitution(_, _)
\* What a replacement string stands for at one match of /&/: in it $$ is a $,
\* $& is the text matched (the &), and $' is the text after the match.  ($ and a
\* grave accent, not of the alphabet here, is the text before the match; $ and a
\* digit stays as it is, there being no group in /&/.)
getSubstitution(replacement, after) ==
    IF replacement = "" THEN ""
    ELSE IF Head(replacement) = "$" /\ Len(replacement) >= 2
                /\ charAt(replacement, 2) \in {"$", "&", "'"}
    THEN (CASE charAt(replacement, 2) = "$" -> "$"
            [] charAt(replacement, 2) = "&" -> "&"
            [] OTHER                        -> after)
         \o getSubstitution(SubSeq(replacement, 3, Len(replacement)), after)
    ELSE Head(replacement) \o getSubstitution(Tail(replacement), after)

RECURSIVE replaceAmp(_, _)
\* selector.replace(/&/g, parent)
replaceAmp(selector, parent) ==
    IF selector = "" THEN ""
    ELSE (IF Head(selector) = "&" THEN getSubstitution(parent, Tail(selector))
          ELSE Head(selector))
         \o replaceAmp(Tail(selector), parent)

\* Interpolate CSS selectors.
interpolate(selector, parent) ==
    IF ~occurs("&", selector) THEN parent \o " " \o selector
    ELSE replaceAmp(selector, parent)

\* const x = value; rest: the value is computed once, before the rest, and the
\* rest reads it (the test has the evaluator compute the value first).
With(value, rest(_)) == IF value = value THEN rest(value) ELSE rest(value)

RECURSIVE stylize(_, _, _, _, _), stylizeNested(_, _, _, _, _)

\* The loop over nested of stylize: pid += name + stylize(name, value, ...).
\* The result carries pid and the two lists as the calls leave them.
stylizeNested(nested, pid, rulesList, stylesList, parent) ==
    IF nested = <<>> THEN [pid |-> pid, rulesList |-> rulesList, stylesList |-> stylesList]
    ELSE With(stylize(Head(nested)[1], Head(nested)[2], rulesList, stylesList, parent),
              LAMBDA r : stylizeNested(Tail(nested), pid \o Head(nested)[1] \o r.pid,
                                       r.rulesList, r.stylesList, parent))

\* An at-rule branch that keeps the declarations as the text of the child rule
\* whether or not there is a parent selector.
stylizeRuleOwnText(selector, p, rulesList, stylesList, parent) ==
    LET child(r) == [selector |-> selector,
                     styles   |-> r.stylesList,
                     rules    |-> r.rulesList,
                     style    |-> p.style]
    IN  With(stylizeNested(p.nested, p.style, <<>>, <<>>, parent),
             LAMBDA r : [pid |-> r.pid, rulesList |-> Append(rulesList, child(r)),
                         stylesList |-> stylesList])

\* The at-rule branch of stylize: a child rule with its own lists.
stylizeRule(selector, p, rulesList, stylesList, parent) ==
    LET own == IF p.style # "" /\ parent # ""
               THEN <<[selector |-> parent, style |-> p.style, isUnique |-> p.isUnique]>>
               ELSE <<>>
        child(r) == [selector |-> selector,
                     styles   |-> r.stylesList,
                     rules    |-> r.rulesList,
                     style    |-> IF parent # "" THEN "" ELSE p.style]
    IN  With(stylizeNested(p.nested, p.style, <<>>, own, parent),
             LAMBDA r : [pid |-> r.pid, rulesList |-> Append(rulesList, child(r)),
                         stylesList |-> stylesList])

\* The selector branch of stylize: the styles go to the list of the caller.
stylizeSelector(selector, p, rulesList, stylesList, parent) ==
    LET k == IF parent # "" THEN interpolate(selector, parent) ELSE selector
        pushed == IF p.style # ""
                  THEN Append(stylesList, [selector |-> k, style |-> p.style,
                                           isUnique |-> p.isUnique])
                  ELSE stylesList
    IN  stylizeNested(p.nested, p.style, rulesList, pushed, k)

\* Recursive loop building styles with deferred selectors.  An absent parent and
\* the empty parent are both falsy and are both the empty string here.
stylize(selector, styles, rulesList, stylesList, parent) ==
    With(parseStyles(styles, selector # ""),
         LAMBDA p : IF selector # "" /\ Head(selector) = "@"
                    THEN stylizeRule(selector, p, rulesList, stylesList, parent)
                    ELSE stylizeSelector(selector, p, rulesList, stylesList, parent))

\* An identifier that tells a marked tree from an unmarked one.
keyOfFlag(pid, styles) ==
    (IF production \/ styles.displayName = "" THEN "" ELSE styles.displayName \o "_")
    \o "f" \o stringHash(IF styles.unique THEN pid \o "u" ELSE pid)

\* key(pid, styles): the identifier a registration returns.
key(pid, styles) ==
    (IF production \/ styles.displayName = "" THEN "" ELSE styles.displayName \o "_")
    \o "f" \o stringHash(pid)

(***************************************************************************)
(* ReferenceCountedCache and the node kinds                                *)
(*                                                                         *)
(* A cache is a record: sheet, changeId, keys (_keys), children            *)
(* (_children), counters (_counters) and changes.  A stored node is an     *)
(* object the cache alone holds (add stores a clone), so a node is a value *)
(* here.  An operation answers the cache as it leaves it together with the *)
(* notifications it sent to the cache's own changes.                       *)
(***************************************************************************)

\* Noop changes.
noopChanges == "noop"

\* The listener handed to create().
listener == "listener"

\* Object.create(null)
EmptyMap == [x \in {} |-> x]

put(map, k, v) == [x \in DOMAIN map \cup {k} |-> IF x = k THEN v ELSE map[x]]

delete(map, k) == [x \in DOMAIN map \ {k} |-> map[x]]

\* new Selector(selector, id)
Selector(selector, id) == [kind |-> "Selector", id |-> id, selector |-> selector]

\* new Style(style, id)
Style(style, id) ==
    [kind |-> "Style", id |-> id, style |-> style,
     sheet |-> <<>>, changeId |-> 0, keys |-> <<>>,
     children |-> EmptyMap, counters |-> EmptyMap, changes |-> noopChanges]

\* new Rule(rule, style, id)
Rule(rule, style, id) ==
    [kind |-> "Rule", id |-> id, rule |-> rule, style |-> style,
     sheet |-> <<>>, changeId |-> 0, keys |-> <<>>,
     children |-> EmptyMap, counters |-> EmptyMap, changes |-> noopChanges]

\* new FreeStyle(id, changes)
FreeStyle(id, changes) ==
    [kind |-> "FreeStyle", id |-> id,
     sheet |-> <<>>, changeId |-> 0, keys |-> <<>>,
     children |-> EmptyMap, counters |-> EmptyMap, changes |-> changes]

\* x instanceof Cache
isCache(x) == x.kind # "Selector"

\* getStyles() of each node kind.
getStyles(node) ==
    CASE node.kind = "Selector" -> node.selector
      [] node.kind = "Style"    -> joinWith(node.sheet, ",") \o "{" \o node.style \o "}"
      [] node.kind = "Rule"     -> node.rule \o "{" \o node.style \o join(node.sheet) \o "}"
      [] OTHER                  -> join(node.sheet)

\* Array.prototype.indexOf
indexOf(arr, x) ==
    IF \E i \in 1..Len(arr) : arr[i] = x
    THEN (CHOOSE i \in 1..Len(arr) : arr[i] = x /\ \A j \in 1..(i - 1) : arr[j] # x) - 1
    ELSE -1

\* Where splice(index, ...) starts: a negative index counts from the end.
spliceStart(arr, index) ==
    IF index < 0 THEN (IF Len(arr) + index < 0 THEN 0 ELSE Len(arr) + index)
    ELSE (IF index > Len(arr) THEN Len(arr) ELSE index)

\* arr.splice(index, 1)
spliceOut(arr, index) ==
    SubSeq(arr, 1, spliceStart(arr, index)) \o SubSeq(arr, spliceStart(arr, index) + 2, Len(arr))

\* A splice that leaves the array as it was.
spliceInStale(arr, index, x) == arr

\* arr.splice(index, 1, x)
spliceIn(arr, index, x) ==
    SubSeq(arr, 1, spliceStart(arr, index)) \o <<x>>
    \o SubSeq(arr, spliceStart(arr, index) + 2, Len(arr))

\* this.changes.add(item, index) and this.changes.remove(item, index): what
\* reaches the listener, if there is one.
emit(cache, type, item, index) ==
    IF cache.changes = noopChanges THEN <<>>
    ELSE <<[type |-> type, id |-> item.id, text |-> getStyles(item), index |-> index]>>

\* this.changes.change(item, oldIndex, newIndex)
emitChange(cache, item, oldIndex, newIndex) ==
    IF cache.changes = noopChanges THEN <<>>
    ELSE <<[type |-> "change", id |-> item.id, text |-> getStyles(item),
            oldIndex |-> oldIndex, newIndex |-> newIndex]>>

\* values(): the stored nodes in key order.
values(cache) == [i \in 1..Len(cache.keys) |-> cache.children[cache.keys[i]]]

RECURSIVE add(_, _), remove(_, _), mergeItems(_, _, _), unmergeItems(_, _, _), clone(_)

\* An add that puts the new entry first.
addNewInFront(cache, counted, item) ==
    LET next == [counted EXCEPT !.children = put(@, item.id, item),
                                !.keys = <<item.id>> \o @,
                                !.sheet = <<getStyles(item)>> \o @,
                                !.changeId = @ + 1]
    IN  [cache |-> next, events |-> emit(cache, "add", item, 0)]

\* Cache.add, when the count was zero: store the item and append it.
addNew(cache, counted, item) ==
    LET next == [counted EXCEPT !.children = put(@, item.id, item),
                                !.keys = Append(@, item.id),
                                !.sheet = Append(@, getStyles(item)),
                                !.changeId = @ + 1]
    IN  [cache |-> next, events |-> emit(cache, "add", item, Len(cache.keys))]

\* An add of an entry that is there which renders and notifies whether or not
\* the merge changed the stored item.
addMergedNotifies(cache, counted, style, item, merged) ==
    LET curIndex == indexOf(cache.keys, style.id)
        kept == [counted EXCEPT !.children[style.id] = merged]
    IN  [cache  |-> [kept EXCEPT !.sheet = spliceIn(@, curIndex, getStyles(merged)),
                                 !.changeId = @ + 1],
         events |-> emitChange(cache, merged, curIndex, curIndex)]

\* Cache.add, when the entry is there and both nodes are caches: merged is the
\* stored item after item.merge(style).
addMerged(cache, counted, style, item, merged) ==
    LET curIndex == indexOf(cache.keys, style.id)
        kept == [counted EXCEPT !.children[style.id] = merged]
    IN  IF merged.changeId # item.changeId
        THEN [cache  |-> [kept EXCEPT !.sheet = spliceIn(@, curIndex, getStyles(merged)),
                                      !.changeId = @ + 1],
              events |-> emitChange(cache, merged, curIndex, curIndex)]
        ELSE [cache |-> kept, events |-> <<>>]

\* An add that takes every node for a new one.
addAppends(cache, style) ==
    With(clone(style),
         LAMBDA item : addNew(cache, [cache EXCEPT !.counters = put(@, style.id, 1)], item))

\* Cache.add
add(cache, style) ==
    LET count == IF style.id \in DOMAIN cache.counters THEN cache.counters[style.id] ELSE 0
        counted == [cache EXCEPT !.counters = put(@, style.id, count + 1)]
    IN  IF count = 0
        THEN With(clone(style), LAMBDA item : addNew(cache, counted, item))
        ELSE IF isCache(cache.children[style.id]) /\ isCache(style)
        THEN With(mergeItems(cache.children[style.id], values(style), <<>>).cache,
                  LAMBDA merged : addMerged(cache, counted, style,
                                            cache.children[style.id], merged))
        ELSE [cache |-> counted, events |-> <<>>]

\* A removal of the last reference that leaves the counter behind, at zero.
removeLastKeepsCounter(cache, counted, style, item) ==
    LET index == indexOf(cache.keys, item.id)
    IN  [cache  |-> [counted EXCEPT !.children = delete(@, style.id),
                                    !.keys = spliceOut(@, index),
                                    !.sheet = spliceOut(@, index),
                                    !.changeId = @ + 1],
         events |-> emit(cache, "remove", item, index)]

\* Cache.remove, when the count was one: the entry goes.
removeLast(cache, counted, style, item) ==
    LET index == indexOf(cache.keys, item.id)
    IN  [cache  |-> [counted EXCEPT !.counters = delete(@, style.id),
                                    !.children = delete(@, style.id),
                                    !.keys = spliceOut(@, index),
                                    !.sheet = spliceOut(@, index),
                                    !.changeId = @ + 1],
         events |-> emit(cache, "remove", item, index)]

\* A removal that leaves the stored item as the merges made it.
removeUnmergedKeeps(cache, counted, style, item, unmerged) ==
    [cache |-> counted, events |-> <<>>]

\* Cache.remove, when the entry stays and both nodes are caches: unmerged is the
\* stored item after item.unmerge(style).
removeUnmerged(cache, counted, style, item, unmerged) ==
    LET index == indexOf(cache.keys, item.id)
        kept == [counted EXCEPT !.children[style.id] = unmerged]
    IN  IF unmerged.changeId # item.changeId
        THEN [cache  |-> [kept EXCEPT !.sheet = spliceIn(@, index, getStyles(unmerged)),
                                      !.changeId = @ + 1],
              events |-> emitChange(cache, unmerged, index, index)]
        ELSE [cache |-> kept, events |-> <<>>]

\* A removal that takes the last but one reference for the last.
removeEarly(cache, style) ==
    LET count == IF style.id \in DOMAIN cache.counters THEN cache.counters[style.id] ELSE 0
        counted == [cache EXCEPT !.counters = put(@, style.id, count - 1)]
    IN  IF count = 0 THEN [cache |-> cache, events |-> <<>>]
        ELSE removeLast(cache, counted, style, cache.children[style.id])

\* A removal that does not test the count.
removeUntested(cache, style) ==
    LET count == IF style.id \in DOMAIN cache.counters THEN cache.counters[style.id] ELSE 0
        counted == [cache EXCEPT !.counters = put(@, style.id, count - 1)]
    IN  IF count = 1 THEN removeLast(cache, counted, style, cache.children[style.id])
        ELSE IF count >= 2 /\ isCache(cache.children[style.id]) /\ isCache(style)
        THEN With(unmergeItems(cache.children[style.id], values(style), <<>>).cache,
                  LAMBDA unmerged : removeUnmerged(cache, counted, style,
                                                   cache.children[style.id], unmerged))
        ELSE [cache |-> counted, events |-> <<>>]

\* Cache.remove
remove(cache, style) ==
    LET count == IF style.id \in DOMAIN cache.counters THEN cache.counters[style.id] ELSE 0
        counted == [cache EXCEPT !.counters = put(@, style.id, count - 1)]
    IN  IF count = 0 THEN [cache |-> cache, events |-> <<>>]
        ELSE IF count = 1 THEN removeLast(cache, counted, style, cache.children[style.id])
        ELSE IF isCache(cache.children[style.id]) /\ isCache(style)
        THEN With(unmergeItems(cache.children[style.id], values(style), <<>>).cache,
                  LAMBDA unmerged : removeUnmerged(cache, counted, style,
                                                   cache.children[style.id], unmerged))
        ELSE [cache |-> counted, events |-> <<>>]

\* for (const item of cache.values()) this.add(item)
mergeItems(cache, items, events) ==
    IF items = <<>> THEN [cache |-> cache, events |-> events]
    ELSE With(add(cache, Head(items)),
              LAMBDA r : mergeItems(r.cache, Tail(items), events \o r.events))

\* for (const item of cache.values()) this.remove(item)
unmergeItems(cache, items, events) ==
    IF items = <<>> THEN [cache |-> cache, events |-> events]
    ELSE With(remove(cache, Head(items)),
              LAMBDA r : unmergeItems(r.cache, Tail(items), events \o r.events))

\* Cache.merge
merge(cache, other) == mergeItems(cache, values(other), <<>>)

\* Cache.unmerge
unmerge(cache, other) == unmergeItems(cache, values(other), <<>>)

\* A clone that is the node as it is, counts and all.
cloneWithCounts(node) == node

\* clone() of a Selector (itself), a Style and a Rule (a new node merged with this).
clone(node) ==
    CASE node.kind = "Selector" -> node
      [] node.kind = "Style"    -> merge(Style(node.style, node.id), node).cache
      [] node.kind = "Rule"     -> merge(Rule(node.rule, node.style, node.id), node).cache

\* FreeStyle.clone: the new instance is given the listener of this one.
cloneFreeStyle(root) == merge(FreeStyle(root.id, root.changes), root)

(***************************************************************************)
(* The cache with object identity                                          *)
(*                                                                         *)
(* Here an object is at an address of a heap h, _children holds the        *)
(* addresses of the stored nodes, and add, remove, merge, unmerge and      *)
(* clone answer the heap as they leave it, so that two caches that hold    *)
(* one object show.  (The notifications are left out.)                     *)
(***************************************************************************)

\* new ...: the object is at the next address, Len(h) + 1.
allocate(h, object) == Append(h, object)

\* values() of the cache at c: the addresses of the stored nodes in key order.
valuesAt(h, c) == [i \in 1..Len(h[c].keys) |-> h[c].children[h[c].keys[i]]]

\* What clone() constructs before it merges: new Style(this.style, this.id),
\* new Rule(this.rule, this.style, this.id), new FreeStyle(this.id, this.changes).
constructed(node) ==
    CASE node.kind = "Style" -> Style(node.style, node.id)
      [] node.kind = "Rule"  -> Rule(node.rule, node.style, node.id)
      [] OTHER               -> FreeStyle(node.id, node.changes)

\* The count of an id in the cache at c, zero if there is none.
countAtAddress(h, c, id) == IF id \in DOMAIN h[c].counters THEN h[c].counters[id] ELSE 0

\* Cache.add, when the count was zero: the item is stored and appended.
storeAt(h, c, item) ==
    [h EXCEPT ![c] = [@ EXCEPT !.counters = put(@, h[item].id, 1),
                               !.children = put(@, h[item].id, item),
                               !.keys = Append(@, h[item].id),
                               !.sheet = Append(@, getStyles(h[item])),
                               !.changeId = @ + 1]]

\* Cache.add and Cache.remove, when the entry stays and both nodes are caches:
\* the slot is rendered again if the stored item's changeId is not prev.
renderAt(h, c, item, prev) ==
    IF h[item].changeId # prev
    THEN [h EXCEPT ![c] = [@ EXCEPT !.sheet = spliceIn(@, indexOf(h[c].keys, h[item].id),
                                                       getStyles(h[item])),
                                    !.changeId = @ + 1]]
    ELSE h

\* Cache.remove, when the count was one: the entry goes.
dropAt(h, c, id) ==
    [h EXCEPT ![c] = [@ EXCEPT !.counters = delete(@, id),
                               !.children = delete(@, id),
                               !.keys = spliceOut(@, indexOf(h[c].keys, id)),
                               !.sheet = spliceOut(@, indexOf(h[c].keys, id)),
                               !.changeId = @ + 1]]

RECURSIVE addAt(_, _, _), removeAt(_, _, _), mergeAt(_, _, _), unmergeAt(_, _, _), cloneAt(_, _)

\* An add that stores the node it is handed, not a clone of it.
addAtStoresGiven(h, c, s) ==
    IF countAtAddress(h, c, h[s].id) = 0 THEN storeAt(h, c, s)
    ELSE IF isCache(h[h[c].children[h[s].id]]) /\ isCache(h[s])
    THEN renderAt(mergeAt([h EXCEPT ![c].counters[h[s].id] = @ + 1],
                          h[c].children[h[s].id], valuesAt(h, s)),
                  c, h[c].children[h[s].id], h[h[c].children[h[s].id]].changeId)
    ELSE [h EXCEPT ![c].counters[h[s].id] = @ + 1]

\* Cache.add: this is the cache at c, style the node at s.
addAt(h, c, s) ==
    IF countAtAddress(h, c, h[s].id) = 0
    THEN With(cloneAt(h, s), LAMBDA n : storeAt(n.heap, c, n.at))
    ELSE IF isCache(h[h[c].children[h[s].id]]) /\ isCache(h[s])
    THEN renderAt(mergeAt([h EXCEPT ![c].counters[h[s].id] = @ + 1],
                          h[c].children[h[s].id], valuesAt(h, s)),
                  c, h[c].children[h[s].id], h[h[c].children[h[s].id]].changeId)
    ELSE [h EXCEPT ![c].counters[h[s].id] = @ + 1]

\* Cache.remove
removeAt(h, c, s) ==
    IF countAtAddress(h, c, h[s].id) = 0 THEN h
    ELSE IF countAtAddress(h, c, h[s].id) = 1 THEN dropAt(h, c, h[s].id)
    ELSE IF isCache(h[h[c].children[h[s].id]]) /\ isCache(h[s])
    THEN renderAt(unmergeAt([h EXCEPT ![c].counters[h[s].id] = @ - 1],
                            h[c].children[h[s].id], valuesAt(h, s)),
                  c, h[c].children[h[s].id], h[h[c].children[h[s].id]].changeId)
    ELSE [h EXCEPT ![c].counters[h[s].id] = @ - 1]

\* Cache.merge: items is cache.values(), taken before the loop.
mergeAt(h, c, items) ==
    IF items = <<>> THEN h ELSE mergeAt(addAt(h, c, Head(items)), c, Tail(items))

\* Cache.unmerge
unmergeAt(h, c, items) ==
    IF items = <<>> THEN h ELSE unmergeAt(removeAt(h, c, Head(items)), c, Tail(items))

\* clone(): a Selector answers itself, a cache a new object merged with this.
cloneAt(h, s) ==
    IF h[s].kind = "Selector" THEN [heap |-> h, at |-> s]
    ELSE [heap |-> mergeAt(allocate(h, constructed(h[s])), Len(h) + 1, valuesAt(h, s)),
          at   |-> Len(h) + 1]

(***************************************************************************)
(* Composer                                                                *)
(*                                                                         *)
(* The running state st of a composition: the target cache, uniqueId, the  *)
(* notifications the target sent, and the nodes handed to the target's add *)
(***************************************************************************)

RECURSIVE composeStylize(_, _, _, _, _, _, _), composeRules(_, _, _, _, _)

\* The composition's state after cache.add(item), which left the cache as r says.
composed(st, uid, item, r) ==
    [cache |-> r.cache, uniqueId |-> uid, events |-> st.events \o r.events,
     added |-> Append(st.added, item)]

\* A turn of the loop that names every Style after its content.
composeStyleByContent(pid, e, className, isStyle, uid) ==
    LET k == IF isStyle THEN interpolate(e.selector, className) ELSE e.selector
    IN  add(Style(e.style, "s" \o NUL \o pid \o NUL \o e.style),
            Selector(k, "k" \o NUL \o pid \o NUL \o k)).cache

\* One turn of the loop over stylesList: the Style with its Selector.
composeStyle(pid, e, className, isStyle, uid) ==
    LET k == IF isStyle THEN interpolate(e.selector, className) ELSE e.selector
        id == IF e.isUnique THEN "u" \o NUL \o natToString(uid, 36)
              ELSE "s" \o NUL \o pid \o NUL \o e.style
    IN  add(Style(e.style, id), Selector(k, "k" \o NUL \o pid \o NUL \o k)).cache

\* for (const { selector, style, isUnique } of stylesList)
RECURSIVE composeStyles(_, _, _, _, _)
composeStyles(st, pid, stylesList, className, isStyle) ==
    IF stylesList = <<>> THEN st
    ELSE LET e == Head(stylesList)
             uid == IF e.isUnique THEN st.uniqueId + 1 ELSE st.uniqueId
         IN  With(composeStyle(pid, e, className, isStyle, uid),
                  LAMBDA item : composeStyles(composed(st, uid, item, add(st.cache, item)),
                                              pid, Tail(stylesList), className, isStyle))

\* for (const { selector, style, rules, styles } of rulesList)
composeRules(st, pid, rulesList, className, isStyle) ==
    IF rulesList = <<>> THEN st
    ELSE LET e == Head(rulesList)
             id == "r" \o NUL \o pid \o NUL \o e.selector \o NUL \o e.style
         IN  With(composeStylize(Rule(e.selector, e.style, id), pid, e.rules, e.styles,
                                 className, isStyle, st.uniqueId),
                  LAMBDA inner : composeRules(composed(st, inner.uniqueId, inner.cache,
                                                       add(st.cache, inner.cache)),
                                              pid, Tail(rulesList), className, isStyle))

\* A composer that adds the rules before the styles.
composeStylizeRulesFirst(cache, pid, rulesList, stylesList, className, isStyle, uid) ==
    composeStyles(
        composeRules([cache |-> cache, uniqueId |-> uid, events |-> <<>>, added |-> <<>>],
                     pid, rulesList, className, isStyle),
        pid, stylesList, className, isStyle)

\* Transform `stylize` tree into style objects.
composeStylize(cache, pid, rulesList, stylesList, className, isStyle, uid) ==
    composeRules(
        composeStyles([cache |-> cache, uniqueId |-> uid, events |-> <<>>, added |-> <<>>],
                      pid, stylesList, className, isStyle),
        pid, rulesList, className, isStyle)

(***************************************************************************)
(* FreeStyle: the registration API.  Each call answers the composition's   *)
(* state with the identifier it returns (id).                              *)
(***************************************************************************)

\* What a call that returns nothing returns.
NoId == ""

\* The outcome of a call: the composition's state c and the returned id.
returned(c, id) ==
    [cache |-> c.cache, uniqueId |-> c.uniqueId, events |-> c.events,
     added |-> c.added, id |-> id]

\* The class name or rule name made of an identifier.
named(id) == IF production THEN id ELSE escape(id)

registerStyle(root, styles, uid) ==
    With(stylize("&", styles, <<>>, <<>>, ""),
         LAMBDA s : With(key(s.pid, styles),
         LAMBDA id : returned(composeStylize(root, s.pid, s.rulesList, s.stylesList,
                                             "." \o named(id), TRUE, uid), id)))

\* The end of registerHashRule: this.add(rule) once the rule c.cache is composed.
addHashRule(root, c, id) ==
    With(add(root, c.cache),
         LAMBDA r : [cache |-> r.cache, uniqueId |-> c.uniqueId, events |-> r.events,
                     added |-> <<c.cache>>, id |-> id])

registerHashRule(root, prefix, styles, uid) ==
    With(stylize("", styles, <<>>, <<>>, ""),
         LAMBDA s : With(key(s.pid, styles),
         LAMBDA id : addHashRule(root,
                         composeStylize(Rule(prefix \o " " \o named(id), "",
                                             "h" \o NUL \o s.pid \o NUL \o prefix),
                                        s.pid, s.rulesList, s.stylesList, "", FALSE, uid),
                         id)))

registerKeyframes(root, keyframes, uid) ==
    registerHashRule(root, "@keyframes", keyframes, uid)

registerRule(root, rule, styles, uid) ==
    With(stylize(rule, styles, <<>>, <<>>, ""),
         LAMBDA s : returned(composeStylize(root, s.pid, s.rulesList, s.stylesList,
                                            "", FALSE, uid), NoId))

registerCss(root, styles, uid) == registerRule(root, "", styles, uid)

\* create(changes): a new instance named after the next unique id.
create(changes, uid) ==
    [cache |-> FreeStyle("f" \o natToString(uid + 1, 36), changes), uniqueId |-> uid + 1]

(***************************************************************************)
(* The composer and registerStyle with object identity                     *)
(***************************************************************************)

\* const item = new Style(style, id); item.add(new Selector(key, ...)): the
\* Selector is at Len(h) + 1 and the Style at Len(h) + 2.
styleAt(h, item) ==
    addAt(allocate(allocate(h, values(item)[1]), Style(item.style, item.id)),
          Len(h) + 2, Len(h) + 1)

RECURSIVE composeStylizeAt(_, _, _, _, _, _, _), composeStylesAt(_, _, _, _, _, _),
          composeRulesAt(_, _, _, _, _, _)

\* for (const { selector, style, isUnique } of stylesList), into the cache at c;
\* st is the heap with uniqueId.
composeStylesAt(st, c, pid, stylesList, className, isStyle) ==
    IF stylesList = <<>> THEN st
    ELSE LET uid == IF Head(stylesList).isUnique THEN st.uniqueId + 1 ELSE st.uniqueId
         IN  composeStylesAt(
                 [heap     |-> addAt(styleAt(st.heap, composeStyle(pid, Head(stylesList),
                                                                   className, isStyle, uid)),
                                     c, Len(st.heap) + 2),
                  uniqueId |-> uid],
                 c, pid, Tail(stylesList), className, isStyle)

\* for (const { selector, style, rules, styles } of rulesList): the new Rule is
\* at Len(st.heap) + 1.
composeRulesAt(st, c, pid, rulesList, className, isStyle) ==
    IF rulesList = <<>> THEN st
    ELSE LET e == Head(rulesList)
             id == "r" \o NUL \o pid \o NUL \o e.selector \o NUL \o e.style
         IN  With(composeStylizeAt([heap     |-> allocate(st.heap, Rule(e.selector, e.style, id)),
                                    uniqueId |-> st.uniqueId],
                                   Len(st.heap) + 1, pid, e.rules, e.styles, className, isStyle),
                  LAMBDA inner : composeRulesAt(
                      [heap     |-> addAt(inner.heap, c, Len(st.heap) + 1),
                       uniqueId |-> inner.uniqueId],
                      c, pid, Tail(rulesList), className, isStyle))

\* composeStylize(cache, ...) with the cache at c.
composeStylizeAt(st, c, pid, rulesList, stylesList, className, isStyle) ==
    composeRulesAt(composeStylesAt(st, c, pid, stylesList, className, isStyle),
                   c, pid, rulesList, className, isStyle)

\* registerStyle(styles) on the instance at c.
registerStyleAt(st, c, styles) ==
    With(stylize("&", styles, <<>>, <<>>, ""),
         LAMBDA s : composeStylizeAt(st, c, s.pid, s.rulesList, s.stylesList,
                                     "." \o named(key(s.pid, styles)), TRUE))

(***************************************************************************)
(* The inputs of the state machine                                         *)
(***************************************************************************)

\* The operations of one behaviour.
MaxOps == 3

\* The FreeStyle instances of one behaviour.
MaxRoots == 2

red == Str("red")

\* { color: "red" }
Red == Plain(<< <<"color", red>> >>)

\* { color: "red", "&:hover": { color: "red" } }: one declaration block, two selectors
RedHover == Plain(<< <<"color", red>>, <<"&:hover", Obj(Red)>> >>)

\* { $unique: true, color: "red" }
RedUnique == Styles(TRUE, NoName, << <<"color", red>> >>)

\* { $displayName: "N.", color: "red" }
RedNamed == Styles(FALSE, "N.", << <<"color", red>> >>)

\* { margin: 0, "@m": { color: "red" } }: an at-rule nested under the selector
InMedia == Plain(<< <<"margin", Num(0)>>, <<"@m", Obj(Red)>> >>)

\* { from: { top: 0 }, to: { top: 9 } }
Frames == Plain(<< <<"from", Obj(Plain(<< <<"top", Num(0)>> >>))>>,
                   <<"to", Obj(Plain(<< <<"top", Num(9)>> >>))>> >>)

\* The same frames under $displayName: "N."
FramesNamed == [Frames EXCEPT !.displayName = "N."]

\* { p: { color: "red" } }
Para == Plain(<< <<"p", Obj(Red)>> >>)

\* { "@m": { $unique: true, color: "red" } }: the marked declarations under an at-rule
MediaUnique == Plain(<< <<"@m", Obj(RedUnique)>> >>)

StyleInputs == {Red, RedHover, RedUnique, RedNamed, InMedia, MediaUnique}

KeyframesInputs == {Frames, FramesNamed}

HashRuleInputs == {[prefix |-> "@s", styles |-> Para]}

\* An at-rule over a nested selector, and one whose declarations, marked, are its own.
RuleInputs == {[rule |-> "@m", styles |-> Para], [rule |-> "@f", styles |-> RedUnique]}

CssInputs == {Para}

(***************************************************************************)
(* The state machine                                                       *)
(***************************************************************************)

\* The consumer's list without the slot at index.
without(list, index) == SubSeq(list, 1, index) \o SubSeq(list, index + 2, Len(list))

\* The consumer's list with text put in at index.
inserted(list, index, text) ==
    SubSeq(list, 1, index) \o <<text>> \o SubSeq(list, index + 1, Len(list))

\* The consumer of the notifications, which keeps a list of rule texts as a style
\* sheet of the page would: add inserts the node's text at the index, remove
\* deletes the slot at the index, change deletes at oldIndex and inserts at newIndex.
RECURSIVE applyEvents(_, _)
applyEvents(list, events) ==
    IF events = <<>> THEN list
    ELSE LET e == Head(events)
             next == CASE e.type = "add"    -> inserted(list, e.index, e.text)
                       [] e.type = "remove" -> without(list, e.index)
                       [] e.type = "change" -> inserted(without(list, e.oldIndex),
                                                        e.newIndex, e.text)
         IN  applyEvents(next, Tail(events))

\* No operation yet.
NoOp == [op |-> "none", reg |-> <<>>]

\* The state once the module is loaded and create(listener) has been called.
Start(n) ==
    /\ uniqueId = create(listener, 0).uniqueId
    /\ roots = <<create(listener, 0).cache>>
    /\ mirror = <<>>
    /\ notes = <<>>
    /\ regs = <<>>
    /\ last = NoOp
    /\ ops = 0
    /\ limit = n
    /\ heap = <<>>
    /\ held = <<>>

\* The inputs of Spec hold no two keys of one name, so there the engine's order
\* of equal keys does not show.
Init ==
    /\ production \in BOOLEAN
    /\ sortTies = "linear"
    /\ Start(MaxOps)

\* An operation that leaves root r as res.cache, sent res.events and made or
\* revoked the registration reg.
Done(op, r, res, uid, reg, regsNext) ==
    /\ ops < limit
    /\ roots' = [i \in 1..(IF r > Len(roots) THEN r ELSE Len(roots)) |->
                    IF i = r THEN res.cache ELSE roots[i]]
    /\ uniqueId' = uid
    /\ notes' = res.events
    /\ mirror' = applyEvents(mirror, res.events)
    /\ regs' = regsNext
    /\ last' = [op |-> op, reg |-> reg]
    /\ ops' = ops + 1
    /\ UNCHANGED <<production, sortTies, limit, heap, held>>

\* A registration call on root r whose outcome is res.
Registered(r, api, styles, res) ==
    LET reg == [root |-> r, api |-> api, styles |-> styles, id |-> res.id,
                nodes |-> res.added]
    IN  Done("register", r, res, res.uniqueId, reg, Append(regs, reg))

RegisterStyle(r, styles) ==
    Registered(r, "registerStyle", styles, registerStyle(roots[r], styles, uniqueId))

RegisterKeyframes(r, keyframes) ==
    Registered(r, "registerKeyframes", keyframes, registerKeyframes(roots[r], keyframes, uniqueId))

RegisterHashRule(r, in) ==
    Registered(r, "registerHashRule", in, registerHashRule(roots[r], in.prefix, in.styles, uniqueId))

RegisterRule(r, in) ==
    Registered(r, "registerRule", in, registerRule(roots[r], in.rule, in.styles, uniqueId))

RegisterCss(r, styles) ==
    Registered(r, "registerCss", styles, registerCss(roots[r], styles, uniqueId))

\* roots[r].merge(roots[o])
Merge(r, o) ==
    LET reg == [root |-> r, api |-> "merge", styles |-> o, id |-> NoId,
                nodes |-> values(roots[o])]
    IN  /\ r # o
        /\ Done("merge", r, merge(roots[r], roots[o]), uniqueId, reg, Append(regs, reg))

\* The revocation of one outstanding registration or merge: remove, from the root
\* it went to, each node it added (what unmerge does with the merged instance).
Revoke(i) ==
    Done("revoke", regs[i].root, unmergeItems(roots[regs[i].root], regs[i].nodes, <<>>),
         uniqueId, regs[i], SubSeq(regs, 1, i - 1) \o SubSeq(regs, i + 1, Len(regs)))

\* create(): one more instance, with no listener.
Create ==
    /\ Len(roots) < MaxRoots
    /\ Done("create", Len(roots) + 1,
            [cache |-> create(noopChanges, uniqueId).cache, events |-> <<>>],
            create(noopChanges, uniqueId).uniqueId, <<>>, regs)

\* roots[r].clone(): one more instance, merged from roots[r].
Clone(r) ==
    LET reg == [root |-> Len(roots) + 1, api |-> "clone", styles |-> r, id |-> NoId,
                nodes |-> values(roots[r])]
    IN  /\ Len(roots) < MaxRoots
        /\ Done("clone", Len(roots) + 1, cloneFreeStyle(roots[r]), uniqueId, reg,
                Append(regs, reg))

Next ==
    \/ \E r \in 1..Len(roots), styles \in StyleInputs : RegisterStyle(r, styles)
    \/ \E r \in 1..Len(roots), keyframes \in KeyframesInputs : RegisterKeyframes(r, keyframes)
    \/ \E r \in 1..Len(roots), in \in HashRuleInputs : RegisterHashRule(r, in)
    \/ \E r \in 1..Len(roots), in \in RuleInputs : RegisterRule(r, in)
    \/ \E r \in 1..Len(roots), styles \in CssInputs : RegisterCss(r, styles)
    \/ \E r \in 1..Len(roots), o \in 1..Len(roots) : Merge(r, o)
    \/ \E i \in 1..Len(regs) : Revoke(i)
    \/ Create
    \/ \E r \in 1..Len(roots) : Clone(r)

Spec == Init /\ [][Next]_vars

(***************************************************************************)
(* Registrations and revocations of a few contents in the one instance,    *)
(* over more operations.                                                   *)
(***************************************************************************)

\* The operations of one behaviour of SpecRemoval.
MaxRemovalOps == 5

InitRemoval ==
    /\ production \in BOOLEAN
    /\ sortTies = "linear"
    /\ Start(MaxRemovalOps)

NextRemoval ==
    \/ \E styles \in {Red, RedHover, RedNamed} : RegisterStyle(1, styles)
    \/ \E keyframes \in {Frames} : RegisterKeyframes(1, keyframes)
    \/ \E i \in 1..Len(regs) : Revoke(i)

SpecRemoval == InitRemoval /\ [][NextRemoval]_vars

(***************************************************************************)
(* One registration of a tree whose keys come in one order or another,     *)
(* under either order the engine may give to keys that compare equal.      *)
(***************************************************************************)

\* The operations of one behaviour of SpecOrder.
MaxOrderOps == 1

\* { top: 0 }
Top == Plain(<< <<"top", Num(0)>> >>)

\* { color: "red", margin: 0 } and { margin: 0, color: "red" }
ColorMargin == Plain(<< <<"color", red>>, <<"margin", Num(0)>> >>)
MarginColor == Plain(<< <<"margin", Num(0)>>, <<"color", red>> >>)

\* { fontSize: 1, "font-size": 2 } and { "font-size": 2, fontSize: 1 }: two keys
\* of one hyphenated name
SizeOneTwo == Plain(<< <<"fontSize", Num(1)>>, <<"font-size", Num(2)>> >>)
SizeTwoOne == Plain(<< <<"font-size", Num(2)>>, <<"fontSize", Num(1)>> >>)

\* { a: { color: "red" }, b: { top: 0 } } and { b: { top: 0 }, a: { color: "red" } }
NestedAB == Plain(<< <<"a", Obj(Red)>>, <<"b", Obj(Top)>> >>)
NestedBA == Plain(<< <<"b", Obj(Top)>>, <<"a", Obj(Red)>> >>)

\* { p: NestedAB } and { p: NestedBA }: the two orders one level down
BelowAB == Plain(<< <<"p", Obj(NestedAB)>> >>)
BelowBA == Plain(<< <<"p", Obj(NestedBA)>> >>)

\* { p: ColorMargin } and { p: MarginColor }: the two declaration orders one level down
BelowColorMargin == Plain(<< <<"p", Obj(ColorMargin)>> >>)
BelowMarginColor == Plain(<< <<"p", Obj(MarginColor)>> >>)

OrderTrees ==
    {ColorMargin, MarginColor, SizeOneTwo, SizeTwoOne, NestedAB, NestedBA,
     BelowAB, BelowBA, BelowColorMargin, BelowMarginColor}

InitOrder ==
    /\ production \in BOOLEAN
    /\ sortTies \in {"linear", "binary"}
    /\ Start(MaxOrderOps)

NextOrder ==
    \/ \E styles \in OrderTrees : RegisterStyle(1, styles)
    \/ \E keyframes \in OrderTrees : RegisterKeyframes(1, keyframes)
    \/ \E styles \in OrderTrees : RegisterHashRule(1, [prefix |-> "@s", styles |-> styles])
    \/ \E styles \in OrderTrees : RegisterRule(1, [rule |-> "@m", styles |-> styles])
    \/ \E styles \in OrderTrees : RegisterCss(1, styles)

SpecOrder == InitOrder /\ [][NextOrder]_vars

(***************************************************************************)
(* The cache on its own: add, remove, merge, unmerge and clone called on   *)
(* the instances with nodes that are there and nodes that are not.         *)
(***************************************************************************)

\* The operations of one behaviour of SpecCache.
MaxCacheOps == 3

\* { "@m": { color: "red" } }, and the same under $displayName: "N."
AtRed == Plain(<< <<"@m", Obj(Red)>> >>)
AtRedNamed == [AtRed EXCEPT !.displayName = "N."]

\* The nodes handed to add and remove: the Style and the Rule that composeStylize
\* makes of a content, and those of the same content under a display name, which
\* have the same ids and another selector below.
CacheNodes ==
    {registerStyle(create(noopChanges, 0).cache, styles, 0).added[1] :
        styles \in {Red, RedNamed, AtRed, AtRedNamed}}

\* The cache never reads the environment; the nodes are those of a development
\* build, where the display name shows in the selectors.
InitCache ==
    /\ production = FALSE
    /\ sortTies = "linear"
    /\ Start(MaxCacheOps)

\* roots[r].add(node)
Add(r, node) ==
    Done("add", r, add(roots[r], node), uniqueId, [root |-> r, nodes |-> <<node>>], regs)

\* roots[r].remove(node), whether the node is there or not
Remove(r, node) ==
    Done("remove", r, remove(roots[r], node), uniqueId, [root |-> r, nodes |-> <<node>>], regs)

\* roots[r].merge(roots[o]); what roots[r] was before is kept on record
MergeOther(r, o) ==
    /\ r # o
    /\ Done("merge", r, merge(roots[r], roots[o]), uniqueId,
            [root |-> r, nodes |-> values(roots[o]), before |-> roots[r]], regs)

\* roots[r].unmerge(roots[o])
Unmerge(r, o) ==
    /\ r # o
    /\ Done("unmerge", r, unmerge(roots[r], roots[o]), uniqueId,
            [root |-> r, nodes |-> values(roots[o])], regs)

\* roots[r].clone()
CloneOf(r) ==
    /\ Len(roots) < MaxRoots
    /\ Done("clone", Len(roots) + 1, cloneFreeStyle(roots[r]), uniqueId,
            [root |-> Len(roots) + 1, nodes |-> values(roots[r])], regs)

NextCache ==
    \/ \E r \in 1..Len(roots), node \in CacheNodes : Add(r, node)
    \/ \E r \in 1..Len(roots), node \in CacheNodes : Remove(r, node)
    \/ \E r \in 1..Len(roots), o \in 1..Len(roots) : MergeOther(r, o)
    \/ \E r \in 1..Len(roots), o \in 1..Len(roots) : Unmerge(r, o)
    \/ \E r \in 1..Len(roots) : CloneOf(r)
    \/ Create

SpecCache == InitCache /\ [][NextCache]_vars

(***************************************************************************)
(* Instances and their clones as objects: what one object's operations do  *)
(* to the objects another holds.                                           *)
(***************************************************************************)

\* The operations of one behaviour of SpecHeap.
MaxHeapOps == 5

\* The objects the program holds in SpecHeap.
MaxHeld == 3

HeapInputs == {Red, RedNamed, AtRed, AtRedNamed}

InitHeap ==
    /\ production = FALSE
    /\ sortTies = "linear"
    /\ Start(MaxHeapOps)

\* An operation that leaves the heap and uniqueId as st says and the program with
\* the objects heldNext; reg names the object it was called on (root, an index
\* of heldNext) and, for a clone, the address of the object cloned.
HeapDone(op, reg, st, heldNext) ==
    /\ ops < limit
    /\ heap' = st.heap
    /\ held' = heldNext
    /\ uniqueId' = st.uniqueId
    /\ last' = [op |-> op, reg |-> reg]
    /\ ops' = ops + 1
    /\ UNCHANGED <<production, sortTies, limit, roots, mirror, notes, regs>>

\* create()
HeapCreate ==
    /\ Len(held) < MaxHeld
    /\ HeapDone("create", [root |-> Len(held) + 1],
                [heap     |-> allocate(heap, create(noopChanges, uniqueId).cache),
                 uniqueId |-> create(noopChanges, uniqueId).uniqueId],
                Append(held, Len(heap) + 1))

\* held[a].registerStyle(styles)
HeapRegister(a, styles) ==
    /\ heap[held[a]].kind = "FreeStyle"
    /\ HeapDone("register", [root |-> a],
                registerStyleAt([heap |-> heap, uniqueId |-> uniqueId], held[a], styles), held)

\* Two caches that hold nodes of one kind: two Styles, or two of Rule and instance.
mergeable(a, b) == a # b /\ (heap[held[a]].kind = "Style") = (heap[held[b]].kind = "Style")

\* held[a].merge(held[b])
HeapMerge(a, b) ==
    /\ mergeable(a, b)
    /\ HeapDone("merge", [root |-> a],
                [heap     |-> mergeAt(heap, held[a], valuesAt(heap, held[b])),
                 uniqueId |-> uniqueId], held)

\* held[a].unmerge(held[b])
HeapUnmerge(a, b) ==
    /\ mergeable(a, b)
    /\ HeapDone("unmerge", [root |-> a],
                [heap     |-> unmergeAt(heap, held[a], valuesAt(heap, held[b])),
                 uniqueId |-> uniqueId], held)

\* The clone() of the object at s, held from now on.
HeapCloned(s) ==
    /\ Len(held) < MaxHeld
    /\ HeapDone("clone", [root |-> Len(held) + 1, from |-> s],
                [heap |-> cloneAt(heap, s).heap, uniqueId |-> uniqueId],
                Append(held, Len(heap) + 1))

\* held[a].clone()
HeapClone(a) == HeapCloned(held[a])

\* held[a].values()[i].clone(): the clone of a Style or a Rule
HeapCloneStored(a, i) ==
    /\ i \in 1..Len(heap[held[a]].keys)
    /\ isCache(heap[valuesAt(heap, held[a])[i]])
    /\ HeapCloned(valuesAt(heap, held[a])[i])

NextHeap ==
    \/ HeapCreate
    \/ \E a \in 1..Len(held), styles \in HeapInputs : HeapRegister(a, styles)
    \/ \E a \in 1..Len(held), b \in 1..Len(held) : HeapMerge(a, b)
    \/ \E a \in 1..Len(held), b \in 1..Len(held) : HeapUnmerge(a, b)
    \/ \E a \in 1..Len(held) : HeapClone(a)
    \/ \E a \in 1..Len(held), i \in 1..2 : HeapCloneStored(a, i)

SpecHeap == InitHeap /\ [][NextHeap]_vars

(***************************************************************************)
(* One declaration of a numeric value, of a property that takes a bare     *)
(* number or of one that does not.                                         *)
(***************************************************************************)

\* The operations of one behaviour of SpecUnits.
MaxUnitOps == 1

\* The numeric values are the integers from -MaxNumber to MaxNumber.
MaxNumber == 3

\* Keys as they are written: six whose hyphenated names are in CSS_NUMBER, two of
\* them under a vendor prefix, and four whose names are not.
UnitNames ==
    {"opacity", "zIndex", "lineHeight", "WebkitFlex", "msFlexGrow", "-o-order",
     "margin", "fontSize", "width", "-moz-top"}

InitUnits ==
    /\ production \in BOOLEAN
    /\ sortTies = "linear"
    /\ Start(MaxUnitOps)

NextUnits ==
    \E name \in UnitNames, n \in (-MaxNumber)..MaxNumber :
        RegisterStyle(1, Plain(<< <<name, Num(n)>> >>))

SpecUnits == InitUnits /\ [][NextUnits]_vars

(***************************************************************************)
(* One registration of a tree of nested selectors and at-rules, through    *)
(* each entry point.                                                       *)
(***************************************************************************)

\* The operations of one behaviour of SpecShape.
MaxShapeOps == 1

\* { "@m": { color: "red", "&:hover": { top: 0 } }, "&:hover": { color: "red" } }:
\* the at-rule comes first, and has a nested selector under it
AtFirst == Plain(<< <<"@m", Obj(Plain(<< <<"color", red>>, <<"&:hover", Obj(Top)>> >>))>>,
                    <<"&:hover", Obj(Red)>> >>)

\* { "&": { color: "red" }, "&:hover": { top: 0 }, ".x": { margin: 0 } }
Selectors == Plain(<< <<"&", Obj(Red)>>, <<"&:hover", Obj(Top)>>,
                      <<".x", Obj(Plain(<< <<"margin", Num(0)>> >>))>> >>)

\* { "& + &": { color: "red" } }: the parent twice in one selector
Twice == Plain(<< <<"& + &", Obj(Red)>> >>)

\* { ".x": { "&:hover": { color: "red" }, "y": { top: 0 } } }: two levels down
Deep == Plain(<< <<".x", Obj(Plain(<< <<"&:hover", Obj(Red)>>, <<"y", Obj(Top)>> >>))>> >>)

\* { "x$$": { "& y": { color: "red" } } }: a parent selector that holds $$
Dollar == Plain(<< <<"x$$", Obj(Plain(<< <<"& y", Obj(Red)>> >>))>> >>)

\* { "@m": { "@n": { color: "red" } } }: an at-rule in an at-rule
AtInAt == Plain(<< <<"@m", Obj(Plain(<< <<"@n", Obj(Red)>> >>))>> >>)

\* { "@m": { "&:hover": { color: "red" } } }: an at-rule with no declarations of its own
AtBare == Plain(<< <<"@m", Obj(Plain(<< <<"&:hover", Obj(Red)>> >>))>> >>)

\* { color: "red", "@m": { top: 0 }, ".x": { color: "red" }, "@n": { top: 0 } }:
\* declarations, at-rules and selectors in turn
Mixed == Plain(<< <<"color", red>>, <<"@m", Obj(Top)>>, <<".x", Obj(Red)>>, <<"@n", Obj(Top)>> >>)

ShapeTrees ==
    {Red, Para, InMedia, AtRed, AtFirst, Selectors, Twice, Deep, Dollar, AtInAt, AtBare, Mixed}

InitShape ==
    /\ production \in BOOLEAN
    /\ sortTies = "linear"
    /\ Start(MaxShapeOps)

NextShape ==
    \/ \E styles \in ShapeTrees : RegisterStyle(1, styles)
    \/ \E keyframes \in ShapeTrees : RegisterKeyframes(1, keyframes)
    \/ \E styles \in ShapeTrees : RegisterHashRule(1, [prefix |-> "@s", styles |-> styles])
    \/ \E styles \in ShapeTrees : RegisterRule(1, [rule |-> "@m", styles |-> styles])
    \/ \E styles \in ShapeTrees : RegisterCss(1, styles)

SpecShape == InitShape /\ [][NextShape]_vars

(***************************************************************************)
(* Registrations of one content with and without $unique.                  *)
(***************************************************************************)

\* The operations of one behaviour of SpecFlag.
MaxFlagOps == 3

\* { color: "red" } plain, marked, named, and named and marked
StyleFlagInputs == {Red, RedUnique, RedNamed, [RedUnique EXCEPT !.displayName = "N."]}

\* { p: { color: "red" } } plain, with the declarations marked, and marked at the top
HashFlagInputs ==
    {[prefix |-> "@s", styles |-> t] :
        t \in {Para, Plain(<< <<"p", Obj(RedUnique)>> >>), [Para EXCEPT !.unique = TRUE]}}

InitFlag ==
    /\ production \in BOOLEAN
    /\ sortTies = "linear"
    /\ Start(MaxFlagOps)

NextFlag ==
    \/ \E styles \in StyleFlagInputs : RegisterStyle(1, styles)
    \/ \E in \in HashFlagInputs : RegisterHashRule(1, in)

SpecFlag == InitFlag /\ [][NextFlag]_vars

(***************************************************************************)
(* Properties                                                              *)
(***************************************************************************)

\* The caches of the tree of a node: the node and the caches stored below it.
RECURSIVE Caches(_)
Caches(node) ==
    IF isCache(node)
    THEN {node} \cup UNION {Caches(node.children[k]) : k \in DOMAIN node.children}
    ELSE {}

\* Every cache of every instance, at every level.
AllCaches == UNION {Caches(roots[r]) : r \in 1..Len(roots)}

\* The elements of a sequence.
Range(seq) == {seq[i] : i \in DOMAIN seq}

\* The sheet of a cache is, slot by slot, the text of the child at that key.
Aligned(cache) ==
    /\ Len(cache.sheet) = Len(cache.keys)
    /\ \A i \in 1..Len(cache.keys) :
          /\ cache.keys[i] \in DOMAIN cache.children
          /\ cache.sheet[i] = getStyles(cache.children[cache.keys[i]])

\* C5 (index alignment): in every cache of every level, after every operation,
\* sheet[i] is the current text of the child stored under keys[i].
IndexAlignment == \A cache \in AllCaches : Aligned(cache)

\* An operation has just replaced the text of a slot of the first instance, which
\* holds another entry too.
IndexAlignmentWitness ==
    /\ \E i \in 1..Len(notes) : notes[i].type = "change"
    /\ Len(roots[1].sheet) >= 2

\* The nodes the outstanding registrations handed to root r, oldest first.
RECURSIVE addedTo(_, _)
addedTo(r, n) ==
    IF n = 0 THEN <<>>
    ELSE addedTo(r, n - 1) \o (IF regs[n].root = r THEN regs[n].nodes ELSE <<>>)

\* The children that the nodes of the identifier id, of a list of added nodes,
\* brought with them.
RECURSIVE broughtBy(_, _)
broughtBy(nodes, id) ==
    IF nodes = <<>> THEN <<>>
    ELSE (IF Head(nodes).id = id /\ isCache(Head(nodes)) THEN values(Head(nodes)) ELSE <<>>)
         \o broughtBy(Tail(nodes), id)

\* keys, children and counters hold the same identifiers, keys holds none twice,
\* and every count is at least one.
SameIds(cache) ==
    /\ DOMAIN cache.children = DOMAIN cache.counters
    /\ Range(cache.keys) = DOMAIN cache.counters
    /\ Cardinality(Range(cache.keys)) = Len(cache.keys)
    /\ \A id \in DOMAIN cache.counters : cache.counters[id] >= 1

\* The counts of a cache, and of the caches below it, are the numbers of the
\* nodes of each identifier among those added and not removed since.
RECURSIVE Counted(_, _)
Counted(cache, nodes) ==
    /\ DOMAIN cache.counters = {nodes[i].id : i \in DOMAIN nodes}
    /\ \A id \in DOMAIN cache.counters :
          /\ cache.counters[id] = Cardinality({i \in DOMAIN nodes : nodes[i].id = id})
          /\ id \in DOMAIN cache.children
          /\ isCache(cache.children[id]) => Counted(cache.children[id], broughtBy(nodes, id))

\* C6 (refcount invariant): in every cache keys, children and counters hold the
\* same identifiers, none twice in keys, every count is at least one, and each
\* count is the adds of the identifier less its removes.
RefcountInvariant ==
    /\ \A cache \in AllCaches : SameIds(cache)
    /\ \A r \in 1..Len(roots) : Counted(roots[r], addedTo(r, Len(regs)))

\* A revocation has left an entry that is still counted twice or more.
RefcountInvariantWitness ==
    /\ last.op = "revoke"
    /\ \E cache \in AllCaches : \E id \in DOMAIN cache.counters : cache.counters[id] >= 2

\* Identifiers a and b, both in keys, are in the same order in next.
SameOrder(keys, next, a, b) ==
    (a \in Range(next) /\ b \in Range(next) /\ indexOf(keys, a) < indexOf(keys, b))
        => indexOf(next, a) < indexOf(next, b)

\* C8 (insertion-order stability): an operation leaves the entries of a sheet that
\* survive it in the order they had, and puts the entries it adds after them, so
\* the order of the sheet is the order of first addition.
InsertionOrderStable ==
    [][\A r \in 1..Len(roots) :
          /\ \A a \in Range(roots[r].keys), b \in Range(roots[r].keys) :
                SameOrder(roots[r].keys, roots'[r].keys, a, b)
          /\ \A a \in Range(roots[r].keys), b \in Range(roots'[r].keys) \ Range(roots[r].keys) :
                a \in Range(roots'[r].keys)
                    => indexOf(roots'[r].keys, a) < indexOf(roots'[r].keys, b)]_vars

\* A revocation has removed an entry and left two or more behind it.
InsertionOrderStableWitness ==
    /\ last.op = "revoke"
    /\ \E i \in 1..Len(notes) : notes[i].type = "remove"
    /\ Len(roots[1].keys) >= 2

\* The registration calls, as against merge and clone.
Registrations ==
    {"registerStyle", "registerKeyframes", "registerHashRule", "registerRule", "registerCss"}

\* What a node puts into a stylesheet: each selector with its declarations and
\* each at-rule, under the at-rules around them (ctx), and each at-rule's own
\* declarations under its header.  An at-rule is told by its header, or, where
\* byId is set, by its identifier.
RECURSIVE Content(_, _, _)
Content(node, ctx, byId) ==
    CASE node.kind = "Selector" -> {}
      [] node.kind = "Style" ->
            {<<ctx, node.children[k].selector, node.style>> : k \in DOMAIN node.children}
      [] node.kind = "Rule" ->
            {<<ctx, IF byId THEN node.id ELSE node.rule, node.style>>}
            \cup UNION {Content(node.children[k],
                                Append(ctx, IF byId THEN node.id ELSE node.rule), byId) :
                            k \in DOMAIN node.children}
      [] OTHER -> UNION {Content(node.children[k], ctx, byId) : k \in DOMAIN node.children}

\* What the nodes of a list put into a stylesheet.
ContentOf(nodes, byId) == UNION {Content(nodes[i], <<>>, byId) : i \in DOMAIN nodes}

\* C1 (revocation isolation): after every step the stylesheet of an instance
\* holds every selector with its declarations, and every at-rule, of every
\* registration still outstanding, and nothing else: nothing of a registration
\* already revoked unless an outstanding one has it too.
RevocationIsolation ==
    \A r \in 1..Len(roots) :
        Content(roots[r], <<>>, FALSE) = ContentOf(addedTo(r, Len(regs)), FALSE)

\* What does hold of C1: the same of the entries told by their identifiers, the
\* header of an at-rule left aside.
RevocationIsolationOfEntries ==
    \A r \in 1..Len(roots) :
        Content(roots[r], <<>>, TRUE) = ContentOf(addedTo(r, Len(regs)), TRUE)

\* The tree holds the $unique key somewhere.
RECURSIVE marked(_)
marked(styles) ==
    \/ styles.unique
    \/ \E i \in DOMAIN styles.entries :
          /\ styles.entries[i][2].t = "object"
          /\ marked(styles.entries[i][2].v)

\* The tree of a registration: the styles argument of the call.
treeOf(reg) ==
    IF reg.api \in {"registerHashRule", "registerRule"} THEN reg.styles.styles ELSE reg.styles

\* The step registers, once more and in the same instance, the unmarked tree of
\* the one registration outstanding.
SecondRegistration ==
    /\ last'.op = "register"
    /\ Len(regs) = 1
    /\ regs[1].api \in Registrations
    /\ regs[1].root = last'.reg.root
    /\ regs[1].api = last'.reg.api
    /\ regs[1].styles = last'.reg.styles
    /\ ~marked(treeOf(regs[1]))

\* Every count of after, at every level, is n at the first registration's caches.
RECURSIVE CountsAre(_, _)
CountsAre(cache, n) ==
    \A id \in DOMAIN cache.counters :
        /\ cache.counters[id] = n
        /\ isCache(cache.children[id]) => CountsAre(cache.children[id], n)

\* Every count of after, at every level, is twice the count of before.
RECURSIVE Doubled(_, _)
Doubled(before, after) ==
    /\ DOMAIN after.counters = DOMAIN before.counters
    /\ \A id \in DOMAIN before.counters :
          /\ after.counters[id] = 2 * before.counters[id]
          /\ isCache(before.children[id]) => Doubled(before.children[id], after.children[id])

\* C3 (idempotent dedup) as the claim states it: the second registration of an
\* unmarked tree returns the same identifier, leaves the stylesheet text as it
\* was, and leaves every entry of the tree with the count 2.
IdempotentDedupCountTwo ==
    [][SecondRegistration =>
          /\ last'.reg.id = regs[1].id
          /\ roots'[regs[1].root].sheet = roots[regs[1].root].sheet
          /\ CountsAre(roots'[regs[1].root], 2)]_vars

\* C3 (idempotent dedup), amended: the second registration of an unmarked tree
\* returns the same identifier, leaves the stylesheet text and the order of the
\* entries as they were, sends no notification, and leaves every entry of the
\* tree with twice the count the first registration left it.
IdempotentDedup ==
    [][SecondRegistration =>
          /\ last'.reg.id = regs[1].id
          /\ roots'[regs[1].root].sheet = roots[regs[1].root].sheet
          /\ roots'[regs[1].root].keys = roots[regs[1].root].keys
          /\ notes' = <<>>
          /\ Doubled(roots[regs[1].root], roots'[regs[1].root])]_vars

\* The same tree is registered twice and one entry, which one registration adds
\* twice, is counted four times.
IdempotentDedupWitness ==
    /\ last.op = "register"
    /\ Len(regs) = 2
    /\ regs[1] = regs[2]
    /\ ~marked(treeOf(regs[1]))
    /\ \E id \in DOMAIN roots[1].counters : roots[1].counters[id] = 4

\* The identifier of a node named after the counter.
isUniqueId(id) == Len(id) >= 2 /\ SubSeq(id, 1, 2) = "u" \o NUL

\* The paths, from the cache they were added to, of the nodes of a list that are
\* named after the counter.
RECURSIVE uniquePaths(_, _)
uniquePaths(nodes, path) ==
    UNION {(IF isUniqueId(nodes[i].id) THEN {Append(path, nodes[i].id)} ELSE {})
           \cup (IF nodes[i].kind = "Rule"
                 THEN uniquePaths(values(nodes[i]), Append(path, nodes[i].id))
                 ELSE {}) : i \in DOMAIN nodes}

\* Every identifier of the tree of a node.
RECURSIVE idsIn(_)
idsIn(node) ==
    {node.id} \cup (IF isCache(node)
                    THEN UNION {idsIn(node.children[k]) : k \in DOMAIN node.children}
                    ELSE {})

\* The count of the entry at a path of identifiers, zero if there is none.
RECURSIVE countAt(_, _)
countAt(cache, path) ==
    IF Head(path) \notin DOMAIN cache.counters THEN 0
    ELSE IF Len(path) = 1 THEN cache.counters[Head(path)]
    ELSE countAt(cache.children[Head(path)], Tail(path))

\* What a registration of a marked tree leaves: nodes named after the counter,
\* each under an identifier no instance held before, each an entry counted once.
FreshEntries(reg) ==
    /\ uniquePaths(reg.nodes, <<>>) # {}
    /\ \A path \in uniquePaths(reg.nodes, <<>>) :
          /\ \A r \in 1..Len(roots) : path[Len(path)] \notin idsIn(roots[r])
          /\ countAt(roots'[reg.root], path) = 1

\* The marked declarations of the tree become a Style: the tree carries the mark
\* and declarations at its top, and is not the body of an at-rule handed to
\* registerRule, whose declarations are the Rule's own.
markedStyle(reg) ==
    /\ treeOf(reg).unique
    /\ parseStyles(treeOf(reg), TRUE).style # ""
    /\ ~(reg.api = "registerRule" /\ reg.styles.rule # "" /\ Head(reg.styles.rule) = "@")

RECURSIVE ValidIndices(_, _)
ValidIndices(list, events) ==
    IF events = <<>> THEN TRUE
    ELSE /\ CASE Head(events).type = "add"    -> Head(events).index \in 0..Len(list)
              [] Head(events).type = "remove" -> Head(events).index \in 0..(Len(list) - 1)
              [] Head(events).type = "change" ->
                    /\ Head(events).oldIndex \in 0..(Len(list) - 1)
                    /\ Head(events).newIndex = Head(events).oldIndex
         /\ ValidIndices(applyEvents(list, <<Head(events)>>), Tail(events))

\* C7 (notification mirror): the list of the consumer that applies the
\* notifications of the listener is the sheet of the instance created with the
\* listener, after every operation; every index notified is a valid one and
\* every change has oldIndex = newIndex.
NotificationMirror ==
    [][mirror' = roots'[1].sheet /\ ValidIndices(mirror, notes')]_vars

\* How many of the nodes of a list have the identifier id.
occurrences(nodes, id) == Cardinality({i \in DOMAIN nodes : nodes[i].id = id})

\* The remove notifications that the last operation sent for the identifier id.
removesOf(id) == Cardinality({i \in DOMAIN notes : notes[i].type = "remove" /\ notes[i].id = id})

\* The entry of the identifier id is in the stylesheet text of the cache.
present(cache, id) ==
    \E i \in 1..Len(cache.keys) :
        cache.keys[i] = id /\ cache.sheet[i] = getStyles(cache.children[id])

\* C2 (refcount-gated removal): an entry added N times is in the stylesheet text
\* while fewer than N of the adds are removed, is gone once the Nth is, and the
\* listener is sent remove for it once, by the Nth removal and by nothing before.
RefcountGatedRemoval ==
    /\ \A i \in DOMAIN notes :
          notes[i].type = "remove"
              => /\ last.op = "revoke"
                 /\ occurrences(addedTo(last.reg.root, Len(regs)), notes[i].id) = 0
    /\ last.op = "revoke" =>
          \A k \in DOMAIN last.reg.nodes :
              IF occurrences(addedTo(last.reg.root, Len(regs)), last.reg.nodes[k].id) > 0
              THEN /\ present(roots[last.reg.root], last.reg.nodes[k].id)
                   /\ removesOf(last.reg.nodes[k].id) = 0
              ELSE /\ last.reg.nodes[k].id \notin Range(roots[last.reg.root].keys)
                   /\ removesOf(last.reg.nodes[k].id) = 1

\* Two registrations of one content and two removals: the second removal sent the
\* one remove notification.  (The instance's changeId is 2 only if the second
\* registration and the first removal changed nothing.)
RefcountGatedRemovalWitness ==
    /\ ops = 4
    /\ regs = <<>>
    /\ last.op = "revoke"
    /\ roots[1].changeId = 2
    /\ Len(notes) = 1
    /\ notes[1].type = "remove"

\* An entry of a tree that is a nested tree, and one that is a declaration.
isNested(entry) == entry[2].t = "object"
isDeclaration(entry) == entry[2].t # "object"

\* The nested entries and the declarations of a tree, in key order.
nesteds(styles) == SelectSeq(styles.entries, isNested)
declarations(styles) == SelectSeq(styles.entries, isDeclaration)

\* The names parseStyles gives the entries of a list.
nestedNames(entries) == [i \in DOMAIN entries |-> trim(entries[i][1])]
declaredNames(entries) == [i \in DOMAIN entries |-> hyphenate(trim(entries[i][1]))]

\* No two elements of the sequence are equal.
distinct(seq) == Cardinality(Range(seq)) = Len(seq)

\* The sequence b is the sequence a in some order.
permuted(a, b) ==
    /\ Len(a) = Len(b)
    /\ \E f \in Permutations(DOMAIN a) : \A i \in DOMAIN a : b[i] = a[f[i]]

\* The tree other is the tree styles with the nested keys of its top node in
\* some order, all else the same.
permutedAtTop(styles, other) ==
    /\ other.unique = styles.unique
    /\ other.displayName = styles.displayName
    /\ declarations(other) = declarations(styles)
    /\ permuted(nesteds(styles), nesteds(other))

\* The tree other is the tree styles with the nested keys of nodes below the top
\* in some order, all else the same.
permutedBelow(styles, other) ==
    /\ other.unique = styles.unique
    /\ other.displayName = styles.displayName
    /\ declarations(other) = declarations(styles)
    /\ Len(nesteds(other)) = Len(nesteds(styles))
    /\ \A i \in DOMAIN nesteds(styles) :
          /\ nesteds(other)[i][1] = nesteds(styles)[i][1]
          /\ permutedAtTop(nesteds(styles)[i][2].v, nesteds(other)[i][2].v)

\* The tree other is the tree styles with the declaration keys of its nodes, at
\* any level, in some order, all else the same.
RECURSIVE declarationsPermuted(_, _)
declarationsPermuted(styles, other) ==
    /\ other.unique = styles.unique
    /\ other.displayName = styles.displayName
    /\ permuted(declarations(styles), declarations(other))
    /\ Len(nesteds(other)) = Len(nesteds(styles))
    /\ \A i \in DOMAIN nesteds(styles) :
          /\ nesteds(other)[i][1] = nesteds(styles)[i][1]
          /\ declarationsPermuted(nesteds(styles)[i][2].v, nesteds(other)[i][2].v)

\* No node of the tree has two declaration keys of one hyphenated name.
RECURSIVE distinctDeclarations(_)
distinctDeclarations(styles) ==
    /\ distinct(declaredNames(declarations(styles)))
    /\ \A i \in DOMAIN nesteds(styles) : distinctDeclarations(nesteds(styles)[i][2].v)

\* The call of a registration made again, in a new instance, with another tree.
again(reg, other) ==
    CASE reg.api = "registerStyle"     -> registerStyle(create(listener, 0).cache, other, 0)
      [] reg.api = "registerKeyframes" -> registerKeyframes(create(listener, 0).cache, other, 0)
      [] reg.api = "registerHashRule"  ->
            registerHashRule(create(listener, 0).cache, reg.styles.prefix, other, 0)
      [] reg.api = "registerRule"      ->
            registerRule(create(listener, 0).cache, reg.styles.rule, other, 0)
      [] reg.api = "registerCss"       -> registerCss(create(listener, 0).cache, other, 0)

\* The registration and the call made again with the other tree return the same
\* identifier and hand the cache the same nodes: the same ids, the same text.
sameOutcome(reg, other) ==
    /\ again(reg, other).id = reg.id
    /\ again(reg, other).added = reg.nodes

\* The call gives stylize the empty selector, so parseStyles sorts the nested
\* entries of the top node.
emptySelector(reg) ==
    \/ reg.api \in {"registerKeyframes", "registerHashRule", "registerCss"}
    \/ reg.api = "registerRule" /\ reg.styles.rule = ""

DeclarationOrderEveryTree ==
    \A i \in DOMAIN regs : \A other \in OrderTrees :
        declarationsPermuted(treeOf(regs[i]), other) => sameOutcome(regs[i], other)

\* C10 (declaration order-independence), amended: the declaration keys of every
\* node of a tree, no node of which has two keys of one hyphenated name, may come
\* in any order, and the identifier, the node ids and the text are the same.
DeclarationOrder ==
    \A i \in DOMAIN regs : \A other \in OrderTrees :
        (declarationsPermuted(treeOf(regs[i]), other) /\ distinctDeclarations(other))
            => sameOutcome(regs[i], other)

\* A tree whose declaration keys are out of the order of their names is
\* registered, and its text has them in order.
DeclarationOrderWitness ==
    /\ Len(regs) = 1
    /\ regs[1].api = "registerStyle"
    /\ treeOf(regs[1]) = MarginColor
    /\ \E i \in DOMAIN regs[1].nodes : regs[1].nodes[i].style = "color:red;margin:0"

\* A cache of this kind holds nodes of that kind: a Style holds Selectors, a Rule
\* and an instance hold Styles and Rules.
holds(cache, node) == (cache.kind = "Style") = (node.kind = "Selector")

\* The nodes stored in the caches of the instances, at every level, and the
\* nodes of the inputs.
StoredNodes == UNION {Range(values(cache)) : cache \in AllCaches} \cup CacheNodes

\* The cache with the listener for its changes, so that what it sends shows.
observed(cache) == [cache EXCEPT !.changes = listener]

\* C11 (silent tolerance of unknown removal): remove(node) on an instance that
\* does not hold the node's id leaves every instance, the consumer's list and all
\* else as they were and sends no notification; and the same holds of every cache
\* of every level and every node it does not hold: the sheet, the keys, the stored
\* nodes, the counts and changeId stay and nothing is sent.
UnknownRemoval ==
    /\ [](\A cache \in AllCaches, node \in StoredNodes :
             (holds(cache, node) /\ node.id \notin DOMAIN cache.counters)
                => remove(observed(cache), node)
                       = [cache |-> observed(cache), events |-> <<>>])
    /\ [][(last'.op = "remove"
             /\ last'.reg.nodes[1].id \notin DOMAIN roots[last'.reg.root].counters)
          => (roots' = roots /\ notes' = <<>> /\ mirror' = mirror)]_vars

\* A node was added to the first instance and removed, and a further remove,
\* which found nothing, has left the emptied instance as it was and sent nothing.
UnknownRemovalWitness ==
    /\ last.op = "remove"
    /\ last.reg.root = 1
    /\ roots[1].changeId = 2
    /\ roots[1].keys = <<>>
    /\ ops = 3
    /\ notes = <<>>

\* The caches that can be reached from the object at an address: the object, if
\* it is a cache, and the caches its stored nodes reach.
RECURSIVE cachesFrom(_, _)
cachesFrom(h, a) ==
    IF isCache(h[a])
    THEN {a} \cup UNION {cachesFrom(h, h[a].children[k]) : k \in DOMAIN h[a].children}
    ELSE {}

\* C12 (clone independence): no cache object, at any level, is reached from two
\* of the objects the program holds, an instance and its clone among them; the
\* clone() of an instance, a Rule or a Style has the text of the original; and an
\* operation on one held object (registerStyle, merge, unmerge, clone) leaves
\* every cache reached from any other held object as it was: sheet, keys,
\* counters, changeId and stored nodes.
CloneIndependence ==
    /\ [](\A a \in 1..Len(held), b \in 1..Len(held) :
             a # b => cachesFrom(heap, held[a]) \cap cachesFrom(heap, held[b]) = {})
    /\ [][/\ last'.op = "clone"
                => getStyles(heap'[held'[Len(held')]]) = getStyles(heap[last'.reg.from])
          /\ \A b \in 1..Len(held) :
                b # last'.reg.root
                    => \A x \in cachesFrom(heap, held[b]) : heap'[x] = heap[x]]_vars

\* An instance and its clone, which has its id, are held; a registration on one
\* of them has merged a selector into a Style they both had, and the other has
\* the entry with the text it had.
CloneIndependenceWitness ==
    /\ last.op = "register"
    /\ \E a \in 1..Len(held), b \in 1..Len(held) :
          /\ a # b
          /\ last.reg.root = a
          /\ heap[held[a]].kind = "FreeStyle"
          /\ heap[held[b]].kind = "FreeStyle"
          /\ heap[held[a]].id = heap[held[b]].id
          /\ heap[held[a]].keys = heap[held[b]].keys
          /\ Len(heap[held[a]].keys) = 1
          /\ heap[held[a]].sheet # heap[held[b]].sheet

\* The name and the number of the one declaration of a registered tree.
declaredName(reg) == hyphenate(trim(treeOf(reg).entries[1][1]))
declaredNumber(reg) == treeOf(reg).entries[1][2].v

\* The declaration text of the one Style a registration made.
renderedText(reg) == reg.nodes[1].style

\* C13 (numeric unit policy) as the claim states it: for every integer, zero
\* included, the text is name:value with the bare number if the hyphenated name
\* is in the unit-less set, and name:value followed by px otherwise.
UnitPolicyZeroIncluded ==
    \A i \in DOMAIN regs :
        renderedText(regs[i]) =
            declaredName(regs[i]) \o ":" \o numToString(declaredNumber(regs[i]))
                \o (IF declaredName(regs[i]) \in CSS_NUMBER THEN "" ELSE "px")

\* C13 (numeric unit policy), amended: for every integer but zero the text is
\* name:value with the bare number if the hyphenated name is in the unit-less
\* set, and name:value followed by px otherwise; zero is rendered as the bare 0
\* under every name.
UnitPolicy ==
    \A i \in DOMAIN regs :
        renderedText(regs[i]) =
            declaredName(regs[i]) \o ":" \o numToString(declaredNumber(regs[i]))
                \o (IF declaredName(regs[i]) \in CSS_NUMBER \/ declaredNumber(regs[i]) = 0
                    THEN "" ELSE "px")

\* A number that is not zero is declared under a vendor-prefixed name of the
\* unit-less set and is rendered bare.
UnitPolicyWitness ==
    /\ Len(regs) = 1
    /\ treeOf(regs[1]).entries[1] = <<"msFlexGrow", Num(-2)>>
    /\ renderedText(regs[1]) = "-ms-flex-grow:-2"
    /\ roots[1].sheet = <<"." \o regs[1].id \o "{-ms-flex-grow:-2}">>

\* One add or remove, which left the cache before as res says, has raised
\* changeId by one for each notification it sent, of which there is one at most.
countedOnce(before, res) ==
    /\ res.cache.changeId = before.changeId + Len(res.events)
    /\ Len(res.events) <= 1

\* The stored node b is the stored node a with its changeId, if it has one.
sameChangeId(a, b) == isCache(a) => b.changeId = a.changeId

\* An add or remove of an id that was there and is still there, and whose stored
\* node has the changeId it had, changed neither changeId nor the sheet and sent
\* nothing.
quiet(before, res, id) ==
    (/\ id \in DOMAIN before.counters
     /\ id \in DOMAIN res.cache.counters
     /\ sameChangeId(before.children[id], res.cache.children[id]))
        => /\ res.events = <<>>
           /\ res.cache.changeId = before.changeId
           /\ res.cache.sheet = before.sheet

\* C14 (change counter and notifications): in every cache of every level an add
\* and a remove raise changeId by exactly one for each notification the cache
\* sends and never lower it, and an add of an id that is there, or a remove that
\* leaves it there, that does not change the stored node's changeId (two Selector
\* leaves of one id among them) leaves changeId and the sheet and sends nothing;
\* so over every operation the changeId of an instance with a listener grows by
\* the number of notifications the listener was sent, from zero.
ChangeCounter ==
    /\ [](\A cache \in AllCaches, node \in StoredNodes :
             holds(cache, node)
                => /\ countedOnce(observed(cache), add(observed(cache), node))
                   /\ countedOnce(observed(cache), remove(observed(cache), node))
                   /\ quiet(observed(cache), add(observed(cache), node), node.id)
                   /\ quiet(observed(cache), remove(observed(cache), node), node.id))
    /\ [][\A r \in 1..Len(roots') :
             /\ r <= Len(roots) => roots'[r].changeId >= roots[r].changeId
             /\ (last'.op # "create" /\ r = last'.reg.root /\ roots'[r].changes = listener)
                   => roots'[r].changeId
                          = (IF r <= Len(roots) THEN roots[r].changeId ELSE 0) + Len(notes')]_vars

\* A Style that the first instance holds was added once more with a selector it
\* did not have, which sent a change, and then once more with the same selector,
\* which sent nothing and left changeId at 2.
ChangeCounterWitness ==
    /\ last.op = "add"
    /\ last.reg.root = 1
    /\ notes = <<>>
    /\ roots[1].changeId = 2
    /\ Len(roots[1].keys) = 1
    /\ roots[1].counters[last.reg.nodes[1].id] = 3

\* A node with the changeId of every cache in it put at zero.
RECURSIVE stripped(_)
stripped(node) ==
    IF isCache(node)
    THEN [node EXCEPT !.changeId = 0,
                      !.children = [k \in DOMAIN node.children |-> stripped(node.children[k])]]
    ELSE node

\* A.merge(B) and then A.unmerge(B) leave A as it was but for the changeIds.
roundTrip(A, B) == stripped(unmerge(merge(A, B).cache, B).cache) = stripped(A)

\* C15 (merge/unmerge round trip): for every cache A of every level and every
\* cache B of nodes of the same kind, A.merge(B) followed by A.unmerge(B)
\* restores the keys, the sheet, the counters and the stored nodes of A at every
\* level, the changeIds aside; and an instance's unmerge of the nodes it has just
\* merged leaves it as it was before the merge.
MergeRoundTrip ==
    /\ [](\A A \in AllCaches, B \in AllCaches :
             (A.kind = "Style") = (B.kind = "Style") => roundTrip(A, B))
    /\ [][(/\ last.op = "merge"
           /\ last'.op = "unmerge"
           /\ last'.reg.root = last.reg.root
           /\ last'.reg.nodes = last.reg.nodes)
              => stripped(roots'[last.reg.root]) = stripped(last.reg.before)]_vars

\* Two instances hold the Style of one id, each under a selector of its own: the
\* merge of the second into the first changes the text of the first's entry, one
\* level down, and the unmerge brings it back.
MergeRoundTripWitness ==
    /\ Len(roots) = 2
    /\ Len(roots[1].keys) = 1
    /\ roots[2].keys = roots[1].keys
    /\ roots[2].sheet # roots[1].sheet
    /\ merge(roots[1], roots[2]).cache.keys = roots[1].keys
    /\ merge(roots[1], roots[2]).cache.sheet # roots[1].sheet
    /\ unmerge(merge(roots[1], roots[2]).cache, roots[2]).cache.sheet = roots[1].sheet

\* A single remove of each entry of the cache, with the node given, deletes it.
removedAtOnce(cache, nodes) ==
    \A i \in DOMAIN nodes :
        nodes[i].id \notin DOMAIN remove(cache, nodes[i]).cache.counters

\* C19 (clone resets reference counts): in the clone of an instance every entry
\* of every level is counted once, whatever its count in the original, and a
\* single remove of any entry of the clone deletes it; the same holds of the
\* clone() of every Style and Rule stored at any level.
CloneResetsCounts ==
    /\ [](\A node \in StoredNodes :
             isCache(node) => /\ CountsAre(clone(node), 1)
                              /\ clone(node).keys = node.keys
                              /\ removedAtOnce(clone(node), values(node)))
    /\ [][last'.op = "clone"
             => /\ CountsAre(roots'[Len(roots')], 1)
                /\ roots'[Len(roots')].keys = [i \in DOMAIN last'.reg.nodes |->
                                                  last'.reg.nodes[i].id]
                /\ removedAtOnce(roots'[Len(roots')], last'.reg.nodes)]_vars

\* An instance that holds an entry counted twice, with a selector below it that
\* is counted twice, has just been cloned.
CloneResetsCountsWitness ==
    /\ last.op = "clone"
    /\ Len(roots) = 2
    /\ \E id \in DOMAIN roots[1].counters :
          /\ roots[1].counters[id] = 2
          /\ \E k \in DOMAIN roots[1].children[id].counters :
                roots[1].children[id].counters[k] = 2
          /\ roots[2].counters[id] = 1

RECURSIVE substituted(_, _)
\* The selector with every & replaced by the text of the parent, as it is written.
substituted(selector, parent) ==
    IF selector = "" THEN ""
    ELSE (IF Head(selector) = "&" THEN parent ELSE Head(selector))
         \o substituted(Tail(selector), parent)

\* The effective selector of a plain selector under a parent: the selector with
\* the parent in the place of every &, or the parent, a space and the selector.
\* Where asWritten is set the parent is put in as it is written; otherwise it is
\* put in as interpolate puts it.
effective(selector, parent, asWritten) ==
    IF ~asWritten THEN interpolate(selector, parent)
    ELSE IF occurs("&", selector) THEN substituted(selector, parent)
    ELSE parent \o " " \o selector

\* What a tree is to put into a stylesheet when it is met under the key selector
\* with the parent selector parent ("" for none) inside the at-rules ctx: for a
\* plain selector its declarations under its effective selector, and its nested
\* entries under that; for an at-rule a block, which with a parent has no text of
\* its own and holds the declarations under the parent, and with no parent has
\* the declarations as its own text, and whose nested entries keep the parent.
RECURSIVE Expected(_, _, _, _, _)
Expected(selector, styles, parent, ctx, asWritten) ==
    LET text == parseStyles(styles, TRUE).style
        nested == parseNested(styles.entries)
        own == IF selector # "" /\ Head(selector) = "@" THEN parent
               ELSE IF parent # "" THEN effective(selector, parent, asWritten)
               ELSE selector
        inside == IF selector # "" /\ Head(selector) = "@" THEN Append(ctx, selector) ELSE ctx
    IN  (IF selector # "" /\ Head(selector) = "@"
         THEN {<<ctx, selector, IF parent # "" THEN "" ELSE text>>}
              \cup (IF text # "" /\ parent # "" THEN {<<inside, parent, text>>} ELSE {})
         ELSE (IF text # "" THEN {<<ctx, own, text>>} ELSE {}))
        \cup UNION {Expected(nested[i][1], nested[i][2], own, inside, asWritten) :
                       i \in DOMAIN nested}

\* What a registration is to put into the stylesheet: registerStyle resolves the
\* tree against the class made of the returned identifier, registerHashRule and
\* registerKeyframes put it, with no parent, into the rule named after it, and
\* registerRule and registerCss take it under the rule name, or none, as it is.
ExpectedOf(reg, asWritten) ==
    CASE reg.api = "registerStyle" ->
            Expected("&", treeOf(reg), "." \o named(reg.id), <<>>, asWritten)
      [] reg.api \in {"registerKeyframes", "registerHashRule"} ->
            LET header == (IF reg.api = "registerKeyframes" THEN "@keyframes"
                           ELSE reg.styles.prefix) \o " " \o named(reg.id)
            IN  {<<<<>>, header, "">>}
                \cup Expected("", treeOf(reg), "", <<header>>, asWritten)
      [] reg.api = "registerRule" ->
            Expected(reg.styles.rule, treeOf(reg), "", <<>>, asWritten)
      [] OTHER -> Expected("", treeOf(reg), "", <<>>, asWritten)

\* The tree is one at-rule that holds declarations and nothing else.
RuleOfDeclarations(styles) ==
    /\ Len(styles.entries) = 1
    /\ Head(styles.entries[1][1]) = "@"
    /\ parseNested(styles.entries[1][2].v.entries) = <<>>
    /\ parseStyles(styles.entries[1][2].v, TRUE).style # ""

\* C16 (at-rule nested under a selector): an at-rule met under a parent selector
\* becomes a block with no text of its own that holds the node's declarations,
\* if any, under the parent selector, and the nested entries of the node are
\* resolved against the same parent inside the block; an at-rule met with no
\* parent keeps the declarations as its own text and has no entry for them.  So
\* registerStyle of { "@m": { decls } } gives the one entry @m{.class{decls}}.
RuleUnderSelector ==
    \A r \in 1..Len(roots) :
        /\ Content(roots[r], <<>>, FALSE)
              = UNION {ExpectedOf(regs[i], FALSE) : i \in {j \in DOMAIN regs : regs[j].root = r}}
        /\ \A i \in DOMAIN regs :
              (Len(regs) = 1 /\ regs[i].api = "registerStyle" /\ RuleOfDeclarations(treeOf(regs[i])))
                 => roots[r].sheet
                       = <<treeOf(regs[i]).entries[1][1] \o "{." \o named(regs[i].id) \o "{"
                           \o parseStyles(treeOf(regs[i]).entries[1][2].v, TRUE).style \o "}}">>

\* registerStyle has put an at-rule with declarations and a nested selector into
\* the sheet after the selector that follows it in the tree, the declarations
\* and the nested selector under the class inside the block.
RuleUnderSelectorWitness ==
    /\ Len(regs) = 1
    /\ regs[1].api = "registerStyle"
    /\ treeOf(regs[1]) = AtFirst
    /\ roots[1].sheet
          = <<"." \o regs[1].id \o ":hover{color:red}",
              "@m{." \o regs[1].id \o "{color:red}." \o regs[1].id \o ":hover{top:0}}">>

\* C17 (selector interpolation): the effective selector of a plain nested
\* selector under a parent is the selector with every & replaced by the parent's
\* effective selector, as it is written, or, with no & in it, the parent's
\* selector, one space and the selector; with no parent it is the selector as it
\* is.  So every entry of the stylesheet has the selector built in this way.
SelectorInterpolation ==
    \A r \in 1..Len(roots) :
        Content(roots[r], <<>>, FALSE)
           = UNION {ExpectedOf(regs[i], TRUE) : i \in {j \in DOMAIN regs : regs[j].root = r}}

RECURSIVE dollarFree(_)
\* No selector of the tree holds a $.
dollarFree(styles) ==
    \A i \in DOMAIN styles.entries :
        styles.entries[i][2].t = "object"
           => /\ ~occurs("$", styles.entries[i][1])
              /\ dollarFree(styles.entries[i][2].v)

\* The selectors are built as C17 says where no selector of a registered tree
\* holds a $, which replace() reads as the start of a pattern.
SelectorInterpolationOfPlainText ==
    \A r \in 1..Len(roots) :
        (\A i \in DOMAIN regs : regs[i].root = r => dollarFree(treeOf(regs[i])))
           => Content(roots[r], <<>>, FALSE)
                 = UNION {ExpectedOf(regs[i], TRUE) : i \in {j \in DOMAIN regs : regs[j].root = r}}

\* registerStyle has rendered the selectors & and &:hover as the class and the
\* class with :hover, and .x as the class, a space and .x.
SelectorInterpolationOfPlainTextWitness ==
    /\ Len(regs) = 1
    /\ regs[1].api = "registerStyle"
    /\ treeOf(regs[1]) = Selectors
    /\ roots[1].sheet = <<"." \o regs[1].id \o "{color:red}",
                          "." \o regs[1].id \o ":hover{top:0}",
                          "." \o regs[1].id \o " .x{margin:0}">>

RECURSIVE distinctInOrder(_)
\* The sequence without the repetitions of an earlier element.
distinctInOrder(s) ==
    IF s = <<>> THEN <<>>
    ELSE With(distinctInOrder(SubSeq(s, 1, Len(s) - 1)),
              LAMBDA init : IF \E i \in DOMAIN init : init[i] = s[Len(s)] THEN init
                            ELSE Append(init, s[Len(s)]))

\* A stored node as an entry: its kind, the header of a Rule, and its text.
entryOf(node) ==
    IF node.kind = "Style" THEN <<"Style", "", node.style>>
    ELSE <<"Rule", node.rule, node.style>>

\* The entries of the two accumulators: the flat styles, then the blocks.
accumulated(rulesList, stylesList) ==
    [i \in 1..(Len(stylesList) + Len(rulesList)) |->
        IF i <= Len(stylesList) THEN <<"Style", "", stylesList[i].style>>
        ELSE <<"Rule", rulesList[i - Len(stylesList)].selector,
               rulesList[i - Len(stylesList)].style>>]

\* The entries of a cache in the order of its keys.
stored(cache) == [i \in DOMAIN cache.keys |-> entryOf(cache.children[cache.keys[i]])]

\* No at-rule block of the rendered list comes before a plain entry.
PlainBeforeBlocks(sheet) ==
    \A i, j \in DOMAIN sheet : (i < j /\ Head(sheet[i]) = "@") => Head(sheet[j]) = "@"

\* The cache, empty before, holds what composeStylize was given in accumulator
\* order, the flat styles first and the blocks after them, an entry that comes
\* again merged into its first occurrence; a Style holds its selectors in the
\* order they came, and a block holds its own accumulators in the same way.
RECURSIVE InsertedInOrder(_, _, _, _)
InsertedInOrder(cache, rulesList, stylesList, className) ==
    /\ stored(cache) = distinctInOrder(accumulated(rulesList, stylesList))
    /\ PlainBeforeBlocks(cache.sheet)
    /\ \A k \in DOMAIN cache.children :
          LET child == cache.children[k]
              sameStyle(e) == e.style = child.style
              sameRule(e) == e.selector = child.rule /\ e.style = child.style
              selectorOf(e) == IF className # "" THEN interpolate(e.selector, className)
                               ELSE e.selector
              styles == SelectSeq(stylesList, sameStyle)
              rules == SelectSeq(rulesList, sameRule)
          IN  IF child.kind = "Style"
              THEN child.sheet = distinctInOrder([i \in DOMAIN styles |-> selectorOf(styles[i])])
              ELSE Len(rules) = 1
                      => InsertedInOrder(child, rules[1].rules, rules[1].styles, className)

\* The accumulators stylize fills for a registration.
listsOf(reg) ==
    stylize(CASE reg.api = "registerStyle" -> "&"
              [] reg.api = "registerRule" -> reg.styles.rule
              [] OTHER -> "",
            treeOf(reg), <<>>, <<>>, "")

\* The class name composeStylize is given for a registration, if any.
classOf(reg) == IF reg.api = "registerStyle" THEN "." \o named(reg.id) ELSE ""

\* C18 (composer insertion order): a registration adds to its target cache every
\* flat style in accumulator order and then every block in accumulator order,
\* and the same inside each block; so a tree registered into an empty cache is
\* rendered with all plain-selector entries of a level before all at-rule blocks
\* of that level.
InsertionOrder ==
    \A i \in DOMAIN regs :
        IF regs[i].api \in {"registerHashRule", "registerKeyframes"}
        THEN /\ Len(regs[i].nodes) = 1
             /\ InsertedInOrder(regs[i].nodes[1], listsOf(regs[i]).rulesList,
                                listsOf(regs[i]).stylesList, "")
        ELSE /\ [n \in DOMAIN regs[i].nodes |-> entryOf(regs[i].nodes[n])]
                   = accumulated(listsOf(regs[i]).rulesList, listsOf(regs[i]).stylesList)
             /\ Len(regs) = 1
                   => InsertedInOrder(roots[regs[i].root], listsOf(regs[i]).rulesList,
                                      listsOf(regs[i]).stylesList, classOf(regs[i]))

\* registerStyle of a tree that has an at-rule between its declarations and a
\* selector, and another after it, has added two Styles and then two Rules, and
\* the sheet has the one Style of the two before the two blocks.
InsertionOrderWitness ==
    /\ Len(regs) = 1
    /\ regs[1].api = "registerStyle"
    /\ treeOf(regs[1]) = Mixed
    /\ [n \in DOMAIN regs[1].nodes |-> regs[1].nodes[n].kind] = <<"Style", "Style", "Rule", "Rule">>
    /\ roots[1].sheet = <<"." \o regs[1].id \o ",." \o regs[1].id \o " .x{color:red}",
                          "@m{." \o regs[1].id \o "{top:0}}",
                          "@n{." \o regs[1].id \o "{top:0}}">>

RECURSIVE unflagged(_, _)
\* The tree with $unique taken out at every level, and with $displayName taken
\* out too where nameless is set.
unflagged(styles, nameless) ==
    [unique |-> FALSE,
     displayName |-> IF nameless THEN NoName ELSE styles.displayName,
     entries |-> [i \in DOMAIN styles.entries |->
                    IF styles.entries[i][2].t = "object"
                    THEN <<styles.entries[i][1], Obj(unflagged(styles.entries[i][2].v, nameless))>>
                    ELSE styles.entries[i]]]

\* Two registrations through one entry point, under one prefix if they have one.
sameCall(a, b) ==
    /\ a.api = b.api
    /\ a.api = "registerHashRule" => a.styles.prefix = b.styles.prefix

\* The node of the registered tree that has the declarations: the tree itself
\* for registerStyle, the one nested selector of the tree for registerHashRule.
declaring(reg) ==
    IF reg.api = "registerStyle" THEN treeOf(reg) ELSE treeOf(reg).entries[1][2].v

\* The selector the declarations of a registration are rendered under.
selectorOfEntry(reg) ==
    IF reg.api = "registerStyle" THEN "." \o named(reg.id) ELSE treeOf(reg).entries[1][1]

\* The Styles around the entry of a registration: those of the instance, or
\* those of the at-rule named after the identifier.
stylesAround(reg) ==
    LET root == roots[reg.root]
        rules == {k \in DOMAIN root.children :
                     /\ root.children[k].kind = "Rule"
                     /\ root.children[k].rule = reg.styles.prefix \o " " \o named(reg.id)}
        inside(cache) == {cache.children[k] : k \in {c \in DOMAIN cache.children :
                                                        cache.children[c].kind = "Style"}}
    IN  IF reg.api = "registerStyle" THEN inside(root)
        ELSE UNION {inside(root.children[k]) : k \in rules}

\* The entries of the stylesheet that carry the selector and the declarations of
\* a registration.
entriesOf(reg) ==
    {c \in stylesAround(reg) :
        /\ c.style = parseStyles(declaring(reg), TRUE).style
        /\ \E n \in DOMAIN c.sheet : c.sheet[n] = selectorOfEntry(reg)}

\* C20 (the returned identifier ignores the uniqueness flag): two registrations
\* through the same entry point of trees that differ in $unique alone return the
\* same identifier, and so do, in production mode, trees that differ in $unique
\* and $displayName alone; and the stylesheet has the entry of that identifier
\* once for every registration of it with the declarations marked and once more
\* for all the others together.
FlagIgnored ==
    \A i \in DOMAIN regs :
        /\ \A j \in DOMAIN regs :
              (/\ sameCall(regs[i], regs[j])
               /\ unflagged(treeOf(regs[i]), production) = unflagged(treeOf(regs[j]), production))
                 => regs[i].id = regs[j].id
        /\ LET same == {j \in DOMAIN regs : /\ regs[j].root = regs[i].root
                                            /\ sameCall(regs[i], regs[j])
                                            /\ regs[j].id = regs[i].id}
           IN  Cardinality(entriesOf(regs[i]))
                  = Cardinality({j \in same : declaring(regs[j]).unique})
                    + (IF \E j \in same : ~declaring(regs[j]).unique THEN 1 ELSE 0)

\* registerStyle has returned one identifier for { color: "red" } and, twice,
\* for the same with $unique, and the sheet has the entry of that class three times.
FlagIgnoredWitness ==
    /\ Len(regs) = 3
    /\ treeOf(regs[1]) = Red /\ treeOf(regs[2]) = RedUnique /\ treeOf(regs[3]) = RedUnique
    /\ regs[1].id = regs[2].id /\ regs[2].id = regs[3].id
    /\ roots[1].sheet = [k \in 1..3 |-> "." \o named(regs[1].id) \o "{color:red}"]

====
